---- MODULE Spec2Model ----
(***************************************************************************)
(* A model of scripts/csv_to_mapping.py: the pipeline that turns a label   *)
(* CSV into mapping_step_element.txt and mapping_step_set.txt and a new    *)
(* version row of the label_sets table; and of scripts/rename_videos.py    *)
(* and reverse_rename.py, which rename the videos of a directory after a   *)
(* skater roster and back again from the log of the renames.               *)
(*                                                                         *)
(* A Python str is a sequence of one-character strings, so that strip,     *)
(* replace, join and split act on characters as the code's calls do.       *)
(* Python None and a missing file are one-element sequences holding a      *)
(* marker that is no character.                                            *)
(***************************************************************************)
EXTENDS Integers, Sequences, FiniteSets, TLC

\* ------------------------------------------------------------------------
\* Bounds of the model
\* ------------------------------------------------------------------------

\* longest record list handed to validate_csv
MaxValidateRecords == 3
\* longest record list handed to extract_sets
MaxExtractRecords == 4
\* longest record list handed to generate_element_mapping
MaxGenerateRecords == 3

\* ------------------------------------------------------------------------
\* Strings
\* ------------------------------------------------------------------------

NoneVal == << "<None>" >>

NL == "\n"

Whitespace == {" ", "\t", "\n", "\r"}

HexDigits ==
    {"0","1","2","3","4","5","6","7","8","9",
     "a","b","c","d","e","f","A","B","C","D","E","F"}

DigitChars == << "0","1","2","3","4","5","6","7","8","9" >>

\* bool(s) of an Optional[str]: None and "" are falsy
Truthy(s) == s # NoneVal /\ s # << >>

RECURSIVE NatToStr(_)
NatToStr(n) ==
    IF n < 10 THEN << DigitChars[n + 1] >>
    ELSE NatToStr(n \div 10) \o << DigitChars[(n % 10) + 1] >>

\* f"{n}" of an int
IntToStr(n) == IF n < 0 THEN << "-" >> \o NatToStr(0 - n) ELSE NatToStr(n)

\* sep.join(parts)
RECURSIVE Join(_, _)
Join(sep, parts) ==
    IF parts = << >> THEN << >>
    ELSE IF Len(parts) = 1 THEN parts[1]
    ELSE parts[1] \o sep \o Join(sep, Tail(parts))

\* text.split(ch)
RECURSIVE Split(_, _)
Split(text, ch) ==
    IF \A i \in 1..Len(text) : text[i] # ch THEN << text >>
    ELSE LET k == CHOOSE i \in 1..Len(text) :
                     text[i] = ch /\ \A j \in 1..(i - 1) : text[j] # ch
         IN  << SubSeq(text, 1, k - 1) >>
               \o Split(SubSeq(text, k + 1, Len(text)), ch)

\* text.replace(old, new, 1): the first occurrence only
ReplaceFirstOnly(text, old, new) ==
    [i \in 1..Len(text) |->
        IF text[i] = old /\ \A j \in 1..(i - 1) : text[j] # old
        THEN new ELSE text[i]]

\* text.replace(old, new) for one-character old and new
Replace(text, old, new) ==
    [i \in 1..Len(text) |-> IF text[i] = old THEN new ELSE text[i]]

\* the keys of a dict filled by iterating over s: insertion order
RECURSIVE DictKeys(_)
DictKeys(s) ==
    IF s = << >> THEN << >>
    ELSE LET front == DictKeys(SubSeq(s, 1, Len(s) - 1))
             last  == s[Len(s)]
         IN  IF \E i \in 1..Len(front) : front[i] = last
             THEN front ELSE Append(front, last)

\* the value d[x] of the counting dict d[x] = d.get(x, 0) + 1 over s
Count(s, x) == Cardinality({i \in 1..Len(s) : s[i] = x})

\* ------------------------------------------------------------------------
\* Colours
\* ------------------------------------------------------------------------

CATEGORY_COLORS ==
    <<
       << <<"T","h","r","e","e","_","T","u","r","n">>,
          <<"#","3","b","8","2","f","6">> >>,
       << <<"B","r","a","c","k","e","t","_","T","u","r","n">>,
          <<"#","8","b","5","c","f","6">> >>,
       << <<"R","o","c","k","e","r","_","T","u","r","n">>,
          <<"#","0","6","b","6","d","4">> >>,
       << <<"C","o","u","n","t","e","r","_","T","u","r","n">>,
          <<"#","1","0","b","9","8","1">> >>,
       << <<"L","o","o","p","_","T","u","r","n">>,
          <<"#","f","5","9","e","0","b">> >>,
       << <<"T","w","i","z","z","l","e">>,
          <<"#","e","f","4","4","4","4">> >>,
       << <<"T","o","e","_","S","t","e","p">>,
          <<"#","e","c","4","8","9","9">> >>,
       << <<"C","h","a","s","s","e">>,
          <<"#","8","4","c","c","1","6">> >>,
       << <<"M","o","h","a","w","k">>,
          <<"#","f","9","7","3","1","6">> >>,
       << <<"C","h","o","c","t","a","w">>,
          <<"#","8","b","5","c","f","6">> >>,
       << <<"C","h","a","n","g","e","_","o","f","_","E","d","g","e">>,
          <<"#","0","6","b","6","d","4">> >>,
       << <<"C","r","o","s","s","_","R","o","l","l">>,
          <<"#","0","5","9","6","6","9">> >>,
       << <<"S","w","i","n","g","_","R","o","l","l">>,
          <<"#","0","d","9","4","8","8">> >>,
       << <<"C","r","o","s","s","_","O","v","e","r">>,
          <<"#","7","c","3","a","e","d">> >>,
       << <<"S","p","i","r","a","l">>,
          <<"#","d","b","2","7","7","7">> >>,
       << <<"A","r","a","b","e","s","q","u","e">>,
          <<"#","b","e","1","8","5","d">> >>,
       << <<"S","p","r","e","a","d","_","E","a","g","l","e","s">>,
          <<"#","c","2","4","1","0","c">> >>,
       << <<"I","n","a","_","B","a","u","e","r","s">>,
          <<"#","7","c","2","d","1","2">> >>,
       << <<"H","y","d","r","o","b","l","a","d","i","n","g">>,
          <<"#","1","e","4","0","a","f">> >>,
       << <<"K","n","e","e","_","S","l","i","d","e">>,
          <<"#","3","7","4","1","5","1">> >>,
       << <<"N","O","N","E">>,
          <<"#","6","b","7","2","8","0">> >>,
       << <<"O","t","h","e","r">>,
          <<"#","9","c","a","3","a","f">> >>
    >>

OtherName == << "O","t","h","e","r" >>

CategoryColor(name) ==
    LET k == CHOOSE i \in 1..Len(CATEGORY_COLORS) : CATEGORY_COLORS[i][1] = name
    IN  CATEGORY_COLORS[k][2]

\* CATEGORY_COLORS.get(set_name, CATEGORY_COLORS['Other'])
get_default_color(set_name) ==
    IF \E i \in 1..Len(CATEGORY_COLORS) : CATEGORY_COLORS[i][1] = set_name
    THEN CategoryColor(set_name)
    ELSE CategoryColor(OtherName)

\* a pattern that forgets the upper-case digits: r'^#[0-9a-f]{6}$'
ColorMatchesLowerCaseOnly(c) ==
    /\ Len(c) \in {7, 8}
    /\ c[1] = "#"
    /\ \A i \in 2..7 :
          c[i] \in HexDigits \ {"A", "B", "C", "D", "E", "F"}
    /\ Len(c) = 8 => c[8] = NL

\* color_pattern.match(c) for r'^#[0-9A-Fa-f]{6}$': $ also matches before
\* one trailing newline
ColorMatches(c) ==
    /\ Len(c) \in {7, 8}
    /\ c[1] = "#"
    /\ \A i \in 2..7 : c[i] \in HexDigits
    /\ Len(c) = 8 => c[8] = NL

\* ------------------------------------------------------------------------
\* ElementRecord, SetRecord
\* ------------------------------------------------------------------------

ElementRecord(id, set_label, element_label, color) ==
    [id |-> id, set_label |-> set_label,
     element_label |-> element_label, color |-> color]

SetRecord(id, name, color) == [id |-> id, name |-> name, color |-> color]

\* ------------------------------------------------------------------------
\* validate_csv
\* ------------------------------------------------------------------------

\* "Element at row {i+2}: Expected ID {i}, got {record.id} ..."
IdSequenceError(i, actual) ==
    [kind |-> "id_sequence", row |-> i + 2, expected |-> i, actual |-> actual]

\* "Duplicate ID {element_id} appears {count} times"
DuplicateIdError(element_id, count) ==
    [kind |-> "duplicate_id", id |-> element_id, count |-> count]

\* "Duplicate element_label '{name}' appears {count} times"
DuplicateLabelError(name, count) ==
    [kind |-> "duplicate_label", name |-> name, count |-> count]

\* "ID {record.id} ('{record.element_label}'): Invalid color format ..."
InvalidColorError(record) ==
    [kind |-> "invalid_color", id |-> record.id,
     name |-> record.element_label, color |-> record.color]

\* the loop with enumerate(records, start=1)
RECURSIVE IdSequenceErrorsFromOne(_, _)
IdSequenceErrorsFromOne(records, n) ==
    IF n = 0 THEN << >>
    ELSE LET front == IdSequenceErrorsFromOne(records, n - 1)
         IN  IF records[n].id # n
             THEN Append(front, IdSequenceError(n, records[n].id))
             ELSE front

\* a loop that breaks after the first record
IdSequenceErrorsFirstRecordOnly(records, n) ==
    IF n = 0 \/ records[1].id = 0 THEN << >>
    ELSE << IdSequenceError(0, records[1].id) >>

\* for i, record in enumerate(records): if record.id != i: errors.append(..)
\* over the first n records
RECURSIVE IdSequenceErrors(_, _)
IdSequenceErrors(records, n) ==
    IF n = 0 THEN << >>
    ELSE LET front == IdSequenceErrors(records, n - 1)
             i     == n - 1
         IN  IF records[n].id # i
             THEN Append(front, IdSequenceError(i, records[n].id))
             ELSE front

\* for key, count in counts.items(): if count > 1: errors.append(..)
\* over the first n keys of the counting dict of values
RECURSIVE DuplicateIdErrors(_, _)
DuplicateIdErrors(ids, n) ==
    IF n = 0 THEN << >>
    ELSE LET front == DuplicateIdErrors(ids, n - 1)
             key   == DictKeys(ids)[n]
         IN  IF Count(ids, key) > 1
             THEN Append(front, DuplicateIdError(key, Count(ids, key)))
             ELSE front

RECURSIVE DuplicateLabelErrors(_, _)
DuplicateLabelErrors(names, n) ==
    IF n = 0 THEN << >>
    ELSE LET front == DuplicateLabelErrors(names, n - 1)
             key   == DictKeys(names)[n]
         IN  IF Count(names, key) > 1
             THEN Append(front, DuplicateLabelError(key, Count(names, key)))
             ELSE front

\* for record in records: if record.color and not color_pattern.match(..)
RECURSIVE ColorErrors(_, _)
ColorErrors(records, n) ==
    IF n = 0 THEN << >>
    ELSE LET front == ColorErrors(records, n - 1)
         IN  IF Truthy(records[n].color) /\ ~ColorMatches(records[n].color)
             THEN Append(front, InvalidColorError(records[n]))
             ELSE front

\* a validation that returns at the first check that found a problem
validate_csv_FirstCheckOnly(records) ==
    LET ids   == [i \in 1..Len(records) |-> records[i].id]
        names == [i \in 1..Len(records) |-> records[i].element_label]
        seq   == IdSequenceErrors(records, Len(records))
        dupid == DuplicateIdErrors(ids, Len(DictKeys(ids)))
        dupnm == DuplicateLabelErrors(names, Len(DictKeys(names)))
    IN  IF seq # << >> THEN seq
        ELSE IF dupid # << >> THEN dupid
        ELSE IF dupnm # << >> THEN dupnm
        ELSE ColorErrors(records, Len(records))

validate_csv(records) ==
    LET ids   == [i \in 1..Len(records) |-> records[i].id]
        names == [i \in 1..Len(records) |-> records[i].element_label]
    IN  IdSequenceErrors(records, Len(records))
          \o DuplicateIdErrors(ids, Len(DictKeys(ids)))
          \o DuplicateLabelErrors(names, Len(DictKeys(names)))
          \o ColorErrors(records, Len(records))

\* ------------------------------------------------------------------------
\* extract_sets
\* ------------------------------------------------------------------------

\* the zero-based index i at which set_name is first seen
FirstAppearance(records, set_name) ==
    (CHOOSE i \in 1..Len(records) :
        /\ records[i].set_label = set_name
        /\ \A j \in 1..(i - 1) : records[j].set_label # set_name) - 1

\* seen_sets.items(): (set_name, first_appearance_index), insertion order
SeenSets(records) ==
    LET keys == DictKeys([i \in 1..Len(records) |-> records[i].set_label])
    IN  [k \in 1..Len(keys) |-> << keys[k], FirstAppearance(records, keys[k]) >>]

\* set_colors[set_name] assigned at every record of the set, not only at
\* the first: the last record of the set decides
SetColorsOfLastRecord(records, set_name) ==
    LET last == records[CHOOSE i \in 1..Len(records) :
                           /\ records[i].set_label = set_name
                           /\ \A j \in (i + 1)..Len(records) :
                                 records[j].set_label # set_name]
    IN  IF Truthy(last.color) THEN last.color
        ELSE get_default_color(set_name)

\* set_colors[set_name]
SetColors(records, set_name) ==
    LET first == records[FirstAppearance(records, set_name) + 1]
    IN  IF Truthy(first.color) THEN first.color
        ELSE get_default_color(set_name)

\* sorted(items, key=lambda x: x[1]): ascending, stable
SortedByValue(items) ==
    LET Before(j, i) ==
            \/ items[j][2] < items[i][2]
            \/ items[j][2] = items[i][2] /\ j < i
        Rank(i) == Cardinality({j \in 1..Len(items) : Before(j, i)})
    IN  [k \in 1..Len(items) |->
            items[CHOOSE i \in 1..Len(items) : Rank(i) = k - 1]]

\* the first-appearance index of the set used as its id
SetRecordOfFirstIndex(records, i, item) ==
    SetRecord(item[2], item[1], SetColors(records, item[1]))

\* SetRecord(id=i, name=name, color=..) for i, (name, _) in enumerate(sorted_sets)
SetRecordOf(records, i, item) ==
    SetRecord(i, item[1], SetColors(records, item[1]))

extract_sets(records) ==
    LET sorted_sets == SortedByValue(SeenSets(records))
    IN  [k \in 1..Len(sorted_sets) |->
            SetRecordOf(records, k - 1, sorted_sets[k])]

\* ------------------------------------------------------------------------
\* generate_element_mapping, generate_set_mapping, build_label_items_json
\* ------------------------------------------------------------------------

\* f"{record.id} {record.element_label}"
ElementLine(record) == IntToStr(record.id) \o << " " >> \o record.element_label

\* f"{set_record.id} {set_record.name}"
SetLine(set_record) == IntToStr(set_record.id) \o << " " >> \o set_record.name

generate_element_mapping(records) ==
    Join(<< NL >>, [i \in 1..Len(records) |-> ElementLine(records[i])])
      \o << NL >>

generate_set_mapping(sets) ==
    Join(<< NL >>, [i \in 1..Len(sets) |-> SetLine(sets[i])]) \o << NL >>

LabelItem(record) ==
    [elementId   |-> record.id,
     name        |-> record.element_label,
     category    |-> record.set_label,
     color       |-> IF Truthy(record.color) THEN record.color
                     ELSE get_default_color(record.set_label),
     description |-> Replace(record.element_label, "_", " "),
     enabled     |-> TRUE]

\* the items list that json.dumps serialises, in order
build_label_items_json(records, sets) ==
    [i \in 1..Len(records) |-> LabelItem(records[i])]

\* ------------------------------------------------------------------------
\* read_csv
\*
\* A CSV file is [exists, fieldnames, rows]; rows are the lines after the
\* header, in file order, each as the dict csv.DictReader makes of it: a
\* field of a short row is None. A blank line makes no dict.
\* ------------------------------------------------------------------------

\* s.strip()
Strip(s) ==
    IF \A i \in 1..Len(s) : s[i] \in Whitespace THEN << >>
    ELSE LET a == CHOOSE i \in 1..Len(s) :
                     s[i] \notin Whitespace
                     /\ \A j \in 1..(i - 1) : s[j] \in Whitespace
             b == CHOOSE i \in 1..Len(s) :
                     s[i] \notin Whitespace
                     /\ \A j \in (i + 1)..Len(s) : s[j] \in Whitespace
         IN  SubSeq(s, a, b)

IsDigit(c) == \E d \in 1..10 : DigitChars[d] = c

DigitValue(c) == (CHOOSE d \in 1..10 : DigitChars[d] = c) - 1

\* the literal without surrounding whitespace and sign
IntBody(s) ==
    LET t == Strip(s)
    IN  IF t # << >> /\ t[1] \in {"+", "-"} THEN Tail(t) ELSE t

\* whether int(s) returns: optional sign, digits, single underscores between
IsIntLiteral(s) ==
    LET b == IntBody(s)
    IN  /\ b # << >>
        /\ \A i \in 1..Len(b) : IsDigit(b[i]) \/ b[i] = "_"
        /\ b[1] # "_" /\ b[Len(b)] # "_"
        /\ \A i \in 1..(Len(b) - 1) : ~(b[i] = "_" /\ b[i + 1] = "_")

RECURSIVE DigitsValue(_)
DigitsValue(b) ==
    IF b = << >> THEN 0
    ELSE LET front == SubSeq(b, 1, Len(b) - 1)
         IN  IF b[Len(b)] = "_" THEN DigitsValue(front)
             ELSE DigitsValue(front) * 10 + DigitValue(b[Len(b)])

\* int(s) where IsIntLiteral(s)
ParseInt(s) ==
    LET t == Strip(s)
    IN  IF t[1] = "-" THEN 0 - DigitsValue(IntBody(s))
        ELSE DigitsValue(IntBody(s))

ReadFailure(kind, line, raw) ==
    [ok |-> FALSE, kind |-> kind, line |-> line, raw |-> raw]

\* the body of the loop over reader for one row
ParseRow(row, fieldnames, row_num) ==
    IF row.id = NoneVal
        THEN ReadFailure("bad_row", row_num, NoneVal)
    ELSE IF ~IsIntLiteral(row.id)
        THEN ReadFailure("invalid_id", row_num, row.id)
    ELSE IF row.set_label = NoneVal \/ row.element_label = NoneVal
        THEN ReadFailure("bad_row", row_num, NoneVal)
    ELSE IF Strip(row.set_label) = << >>
        THEN ReadFailure("empty_set_label", row_num, row.set_label)
    ELSE IF Strip(row.element_label) = << >>
        THEN ReadFailure("empty_element_label", row_num, row.element_label)
    ELSE IF "color" \in fieldnames /\ row.color = NoneVal
        THEN ReadFailure("bad_row", row_num, NoneVal)
    ELSE [ok |-> TRUE,
          record |-> ElementRecord(
              ParseInt(row.id),
              Strip(row.set_label),
              Strip(row.element_label),
              IF "color" \in fieldnames /\ Strip(row.color) # << >>
                  THEN Strip(row.color) ELSE NoneVal)]

\* a line of a CSV file holding nothing but its line break
BlankLine == [id |-> NoneVal, set_label |-> NoneVal,
              element_label |-> NoneVal, color |-> NoneVal]

IsDataRow(line) == line # BlankLine

\* what iterating the csv.DictReader yields: it skips the blank lines
DictReaderRows(lines) == SelectSeq(lines, IsDataRow)

\* for row_num, row in enumerate(reader, start=2): over the first n rows
RECURSIVE ReadRows(_, _)
ReadRows(file, n) ==
    IF n = 0 THEN [ok |-> TRUE, records |-> << >>]
    ELSE LET front == ReadRows(file, n - 1)
             this  == ParseRow(DictReaderRows(file.rows)[n],
                               file.fieldnames, n + 1)
         IN  IF ~front.ok THEN front
             ELSE IF ~this.ok THEN this
             ELSE [ok |-> TRUE, records |-> Append(front.records, this.record)]

\* read_csv without its final `if not records` check
read_csv_WithoutEmptyCheck(file) ==
    IF ~file.exists THEN ReadFailure("not_found", 0, NoneVal)
    ELSE IF ~({"id", "set_label", "element_label"} \subseteq file.fieldnames)
        THEN ReadFailure("missing_columns", 0, NoneVal)
    ELSE ReadRows(file, Len(DictReaderRows(file.rows)))

read_csv(file) ==
    IF ~file.exists THEN ReadFailure("not_found", 0, NoneVal)
    ELSE IF ~({"id", "set_label", "element_label"} \subseteq file.fieldnames)
        THEN ReadFailure("missing_columns", 0, NoneVal)
    ELSE LET read == ReadRows(file, Len(DictReaderRows(file.rows)))
         IN  IF ~read.ok THEN read
             ELSE IF read.records = << >>
                 THEN ReadFailure("no_data_rows", 0, NoneVal)
             ELSE read

\* ------------------------------------------------------------------------
\* The file system, the database and one run of main()
\* ------------------------------------------------------------------------

\* runs of the script, one after the other
MaxRuns == 2
\* latest second a backup timestamp can show
MaxClock == 1

\* a path that does not exist
NoFile == << "<absent>" >>

\* what a failed write_text leaves of a file it had opened: nothing
Truncated == << >>

OldElementText == << "0", " ", "o", NL >>

OldSetText == << "0", " ", "O", NL >>

Projects == {"default", "other"}

Row(id, set_label, element_label, color) ==
    [id |-> id, set_label |-> set_label,
     element_label |-> element_label, color |-> color]

CsvMissing == [exists |-> FALSE, fieldnames |-> {}, rows |-> << >>]

CsvValidA ==
    [exists |-> TRUE,
     fieldnames |-> {"id", "set_label", "element_label", "color"},
     rows |-> << Row(<< "0" >>, << "N","O","N","E" >>, << "x" >>, << >>),
                 Row(<< " ", "1" >>, << "Z" >>, << " ", "a", "_", "b" >>,
                     << "#","a","a","b","b","c","c" >>) >>]

CsvValidB ==
    [exists |-> TRUE,
     fieldnames |-> {"id", "set_label", "element_label"},
     rows |-> << Row(<< "0" >>, << "Z" >>, << "y" >>, NoneVal) >>]

\* id 0 twice and label x twice
CsvInvalid ==
    [exists |-> TRUE,
     fieldnames |-> {"id", "set_label", "element_label"},
     rows |-> << Row(<< "0" >>, << "Z" >>, << "x" >>, NoneVal),
                 Row(<< "0" >>, << "Z" >>, << "x" >>, NoneVal) >>]

\* the header line and nothing after it
CsvEmpty ==
    [exists |-> TRUE,
     fieldnames |-> {"id", "set_label", "element_label"},
     rows |-> << >>]

CsvBadId ==
    [exists |-> TRUE,
     fieldnames |-> {"id", "set_label", "element_label"},
     rows |-> << Row(<< "x" >>, << "Z" >>, << "y" >>, NoneVal) >>]

CsvFiles ==
    {CsvMissing, CsvEmpty, CsvValidA, CsvValidB, CsvInvalid, CsvBadId}

VARIABLES
    pc,              \* where main() is; "idle" before the first run
    args,            \* the parsed command line of the run
    records,         \* main's records
    errors,          \* main's errors
    sets,            \* main's sets
    element_content, \* main's element_content
    set_content,     \* main's set_content
    backup_paths,    \* main's backup_paths: {[key, stamp]}
    raised,          \* the exception on its way to main's handler
    element_file,    \* mapping/mapping_step_element.txt
    set_file,        \* mapping/mapping_step_set.txt
    backups,         \* mapping/*.backup_<stamp>: {[kind, stamp, content]}
    clock,           \* the second datetime.now() last showed
    db_exists,       \* whether db_path exists
    label_sets,      \* the committed rows of label_sets, oldest first
    conn,            \* update_database's conn: "none", "open", "closed"
    pending,         \* rows inserted in conn's open transaction
    next_version,    \* update_database's next_version
    reported,        \* the validation problems printed
    exit_code,       \* the exit status of the run; -1 while it runs
    runs,            \* runs started
    start,           \* files, backups and rows when the run started, and
                     \* the csv and project of the run that committed the
                     \* newest row
    platform,        \* os.name of the machine the rename scripts run on
    roster,          \* the skater CSV handed to rename_videos.py
    video_dir,       \* the *.mp4 entries of the video directory:
                     \* {[name, video]}
    skaters,         \* VideoRenamer.skaters
    video_files,     \* rename_videos' video_files
    rename_plan,     \* rename_videos' rename_plan
    skipped,         \* rename_videos' skipped
    success_count,   \* rename_videos' success_count
    error_count,     \* rename_videos' error_count
    rename_log,      \* rename_log.txt: the lines rename_videos.py printed
    reverse_map,     \* reverse_rename's reverse_map
    position,        \* entries the running loop has handled
    videos_before    \* video_dir when rename_videos.py started

vars ==
    << pc, args, records, errors, sets, element_content, set_content,
       backup_paths, raised, element_file, set_file, backups, clock,
       db_exists, label_sets, conn, pending, next_version, reported,
       exit_code, runs, start, platform, roster, video_dir, skaters,
       video_files, rename_plan, skipped, success_count, error_count,
       rename_log, reverse_map, position, videos_before >>

\* the state of rename_videos.py and reverse_rename.py
renaming ==
    << platform, roster, video_dir, skaters, video_files, rename_plan,
       skipped, success_count, error_count, rename_log, reverse_map,
       position, videos_before >>

\* neither renaming script has been started
RenamingIdle ==
    /\ platform = "posix"
    /\ roster = [exists |-> FALSE, rows |-> << >>]
    /\ video_dir = {}
    /\ skaters = {}
    /\ video_files = << >>
    /\ rename_plan = << >>
    /\ skipped = << >>
    /\ success_count = 0
    /\ error_count = 0
    /\ rename_log = << >>
    /\ reverse_map = << >>
    /\ position = 0
    /\ videos_before = {}

locals ==
    << records, errors, sets, element_content, set_content >>

disk == << element_file, set_file, backups, clock >>

database == << db_exists, label_sets, conn, pending, next_version >>

NoArgs ==
    [csv |-> CsvMissing, dry_run |-> FALSE, no_db |-> FALSE,
     project |-> "default"]

NoException == [ok |-> TRUE, kind |-> "none", line |-> 0, raw |-> NoneVal]

\* no run has committed a row
NoCommit == [csv |-> CsvMissing, project |-> "default"]

Snapshot ==
    [element_file |-> element_file, set_file |-> set_file,
     backups |-> backups, label_sets |-> label_sets,
     committed_by |->
         IF Len(label_sets) > Len(start.label_sets)
         THEN [csv |-> args.csv, project |-> args.project]
         ELSE start.committed_by]

Init ==
    /\ RenamingIdle
    /\ pc = "idle"
    /\ args = NoArgs
    /\ records = << >>
    /\ errors = << >>
    /\ sets = << >>
    /\ element_content = << >>
    /\ set_content = << >>
    /\ backup_paths = {}
    /\ raised = NoException
    /\ element_file \in {NoFile, OldElementText}
    /\ set_file \in {NoFile, OldSetText}
    /\ backups = {}
    /\ clock = 0
    /\ db_exists \in BOOLEAN
    /\ label_sets = << >>
    /\ conn = "none"
    /\ pending = << >>
    /\ next_version = 0
    /\ reported = << >>
    /\ exit_code = -1
    /\ runs = 0
    /\ start = [element_file |-> element_file, set_file |-> set_file,
                backups |-> {}, label_sets |-> << >>,
                committed_by |-> NoCommit]

\* ------------------------------------------------------------------------
\* create_backups, restore_from_backups, write_mapping_files
\* ------------------------------------------------------------------------

\* a copy that creates the backup file and leaves it empty
BackupCopyEmpty(bks, kind, stamp, content) ==
    {b \in bks : ~(b.kind = kind /\ b.stamp = stamp)}
      \cup {[kind |-> kind, stamp |-> stamp, content |-> << >>]}

\* shutil.copy2(file, mapping_dir / f'{name}.backup_{timestamp}')
BackupCopy(bks, kind, stamp, content) ==
    {b \in bks : ~(b.kind = kind /\ b.stamp = stamp)}
      \cup {[kind |-> kind, stamp |-> stamp, content |-> content]}

\* the backup files after create_backups at second stamp
BackupsCreated(bks, element, set, stamp) ==
    LET with_element ==
            IF element # NoFile
            THEN BackupCopy(bks, "element", stamp, element) ELSE bks
    IN  IF set # NoFile
        THEN BackupCopy(with_element, "set", stamp, set) ELSE with_element

\* the backup_paths that create_backups returns
BackupPathsCreated(element, set, stamp) ==
    {[key |-> "element", stamp |-> stamp] : x \in {element} \ {NoFile}}
      \cup {[key |-> "set", stamp |-> stamp] : x \in {set} \ {NoFile}}

BackupContent(bks, kind, stamp) ==
    (CHOOSE b \in bks : b.kind = kind /\ b.stamp = stamp).content

\* a restore that copies the element backup back and forgets the set file
RestoredFileElementOnly(paths, bks, key, current) ==
    IF key = "element" /\ \E p \in paths : p.key = key
    THEN LET p == CHOOSE q \in paths : q.key = key
         IN  BackupContent(bks, key, p.stamp)
    ELSE current

\* restore_from_backups: the file named key after it, current before
RestoredFile(paths, bks, key, current) ==
    IF \E p \in paths : p.key = key
    THEN LET p == CHOOSE q \in paths : q.key = key
         IN  BackupContent(bks, key, p.stamp)
    ELSE current

\* write_mapping_files without its dry_run return
WriteNeverSkipped(dry_run) == FALSE

\* write_mapping_files returns before writing when dry_run
WriteSkipped(dry_run) == dry_run

\* file.write_text(content): "ok", or OSError raised by open ("fail_open")
\* or by the write after open truncated the file ("fail_write")
WriteOutcomes == {"ok", "fail_open", "fail_write"}

WrittenText(current, content, outcome) ==
    IF outcome = "ok" THEN content
    ELSE IF outcome = "fail_open" THEN current
    ELSE Truncated

\* ------------------------------------------------------------------------
\* update_database
\* ------------------------------------------------------------------------

VersionsOf(rows, project) ==
    {rows[i].version : i \in {j \in 1..Len(rows) : rows[j].project = project}}

MaxOf(S) == CHOOSE m \in S : \A x \in S : x <= m

\* SELECT MAX(version) FROM label_sets, without the WHERE clause
NextVersionOfAnyProject(rows, project) ==
    IF rows = << >> THEN 0 + 1
    ELSE MaxOf({rows[i].version : i \in 1..Len(rows)}) + 1

\* next_version = result[0] or 1: the maximum is not incremented
NextVersionWithoutIncrement(rows, project) ==
    IF VersionsOf(rows, project) = {} THEN 1
    ELSE MaxOf(VersionsOf(rows, project))

\* SELECT MAX(version) FROM label_sets WHERE project = ?; (result[0] or 0) + 1
NextVersion(rows, project) ==
    IF VersionsOf(rows, project) = {} THEN 0 + 1
    ELSE MaxOf(VersionsOf(rows, project)) + 1

\* the row of INSERT INTO label_sets (...)
LabelSetsRow(project, version, items_json) ==
    [project |-> project, version |-> version, items_json |-> items_json,
     updated_by |-> "csv_import_script", mapping_name |-> "default"]

\* update_database returns before touching the database when dry_run
DatabaseSkipped(dry_run) == dry_run

\* ------------------------------------------------------------------------
\* main(): one action per step
\* ------------------------------------------------------------------------

\* the script is started: argparse, backup_paths = {}
StartRun ==
    /\ pc \in {"idle", "exit"}
    /\ UNCHANGED renaming
    /\ runs < MaxRuns
    /\ \E csv \in CsvFiles, dry_run \in BOOLEAN, no_db \in BOOLEAN,
          project \in Projects :
          args' = [csv |-> csv, dry_run |-> dry_run, no_db |-> no_db,
                   project |-> project]
    /\ pc' = "reading"
    /\ runs' = runs + 1
    /\ records' = << >>
    /\ errors' = << >>
    /\ sets' = << >>
    /\ element_content' = << >>
    /\ set_content' = << >>
    /\ backup_paths' = {}
    /\ raised' = NoException
    /\ conn' = "none"
    /\ pending' = << >>
    /\ next_version' = 0
    /\ reported' = << >>
    /\ exit_code' = -1
    /\ start' = Snapshot
    /\ UNCHANGED << disk, db_exists, label_sets >>

\* 1. records = read_csv(csv_path)
Reading ==
    /\ pc = "reading"
    /\ UNCHANGED renaming
    /\ LET read == read_csv(args.csv)
       IN  IF read.ok
           THEN /\ records' = read.records
                /\ pc' = "validating"
                /\ UNCHANGED raised
           ELSE /\ raised' = read
                /\ pc' = "except"
                /\ UNCHANGED records
    /\ UNCHANGED << args, errors, sets, element_content, set_content,
                    backup_paths, disk, database, reported, exit_code,
                    runs, start >>

\* step 2 without the sys.exit(1): the problems are printed and main goes on
ValidatingWithoutExit ==
    /\ pc = "validating"
    /\ UNCHANGED renaming
    /\ errors' = validate_csv(records)
    /\ reported' = errors'
    /\ pc' = "extracting"
    /\ UNCHANGED << args, records, sets, element_content, set_content,
                    backup_paths, raised, disk, database, exit_code, runs,
                    start >>

\* 2. errors = validate_csv(records); if errors: print each, sys.exit(1)
Validating ==
    /\ pc = "validating"
    /\ UNCHANGED renaming
    /\ errors' = validate_csv(records)
    /\ IF errors' # << >>
       THEN /\ reported' = errors'
            /\ exit_code' = 1
            /\ pc' = "exit"
       ELSE /\ pc' = "extracting"
            /\ UNCHANGED << reported, exit_code >>
    /\ UNCHANGED << args, records, sets, element_content, set_content,
                    backup_paths, raised, disk, database, runs, start >>

\* 3. sets = extract_sets(records)
Extracting ==
    /\ pc = "extracting"
    /\ UNCHANGED renaming
    /\ sets' = extract_sets(records)
    /\ pc' = "generating"
    /\ UNCHANGED << args, records, errors, element_content, set_content,
                    backup_paths, raised, disk, database, reported,
                    exit_code, runs, start >>

\* 4. element_content, set_content; then the dry-run branch or the backups
Generating ==
    /\ pc = "generating"
    /\ UNCHANGED renaming
    /\ element_content' = generate_element_mapping(records)
    /\ set_content' = generate_set_mapping(sets)
    /\ pc' = IF args.dry_run THEN "write_element" ELSE "backup"
    /\ UNCHANGED << args, records, errors, sets, backup_paths, raised,
                    disk, database, reported, exit_code, runs, start >>

\* 5. backup_paths = create_backups(mapping_dir)
CreateBackups ==
    /\ pc = "backup"
    /\ UNCHANGED renaming
    /\ \E timestamp \in clock..MaxClock :
          /\ clock' = timestamp
          /\ backups' =
                BackupsCreated(backups, element_file, set_file, timestamp)
          /\ backup_paths' =
                BackupPathsCreated(element_file, set_file, timestamp)
    /\ pc' = "write_element"
    /\ UNCHANGED << args, locals, raised, element_file, set_file,
                    database, reported, exit_code, runs, start >>

\* main calls update_database whatever --no-db says
AfterWriteAlwaysDatabase == "update_database"

\* if not args.no_db: update_database(...) else: print("Skipping ...")
AfterWrite == IF args.no_db THEN "finish" ELSE "update_database"

\* 6. write_mapping_files: the dry_run return, or element_file.write_text
WriteElement ==
    /\ pc = "write_element"
    /\ UNCHANGED renaming
    /\ IF WriteSkipped(args.dry_run)
       THEN /\ pc' = AfterWrite
            /\ UNCHANGED << element_file, raised >>
       ELSE \E outcome \in WriteOutcomes :
               /\ element_file' =
                     WrittenText(element_file, element_content, outcome)
               /\ IF outcome = "ok"
                  THEN pc' = "write_set" /\ UNCHANGED raised
                  ELSE /\ pc' = "except"
                       /\ raised' = ReadFailure("write_failed", 0, NoneVal)
    /\ UNCHANGED << args, locals, backup_paths, set_file, backups, clock,
                    database, reported, exit_code, runs, start >>

\* a write of the set file whose failure is recorded and passed over: main
\* goes on to the next step
WriteSetIgnoresFailure ==
    /\ pc = "write_set"
    /\ UNCHANGED renaming
    /\ \E outcome \in WriteOutcomes :
          /\ set_file' = WrittenText(set_file, set_content, outcome)
          /\ pc' = AfterWrite
          /\ IF outcome = "ok"
             THEN UNCHANGED raised
             ELSE raised' = ReadFailure("write_failed", 0, NoneVal)
    /\ UNCHANGED << args, locals, backup_paths, element_file, backups,
                    clock, database, reported, exit_code, runs, start >>

\* 6. write_mapping_files: set_file.write_text
WriteSet ==
    /\ pc = "write_set"
    /\ UNCHANGED renaming
    /\ \E outcome \in WriteOutcomes :
          /\ set_file' = WrittenText(set_file, set_content, outcome)
          /\ IF outcome = "ok"
             THEN pc' = AfterWrite /\ UNCHANGED raised
             ELSE /\ pc' = "except"
                  /\ raised' = ReadFailure("write_failed", 0, NoneVal)
    /\ UNCHANGED << args, locals, backup_paths, element_file, backups,
                    clock, database, reported, exit_code, runs, start >>

\* update_database without the db_path.exists() check: sqlite3.connect
\* creates the file it does not find
DbConnectWithoutExistsCheck ==
    /\ pc = "update_database"
    /\ UNCHANGED renaming
    /\ IF DatabaseSkipped(args.dry_run)
       THEN /\ pc' = "finish"
            /\ UNCHANGED << conn, raised, db_exists >>
       ELSE \E ok \in BOOLEAN :
               IF ok
               THEN /\ conn' = "open"
                    /\ db_exists' = TRUE
                    /\ pc' = "db_begin"
                    /\ UNCHANGED raised
               ELSE /\ pc' = "except"
                    /\ raised' = ReadFailure("db_failed", 0, NoneVal)
                    /\ UNCHANGED << conn, db_exists >>
    /\ UNCHANGED << args, locals, backup_paths, disk, label_sets, pending,
                    next_version, reported, exit_code, runs, start >>

\* 7. update_database up to the connection: the dry_run return, the
\*    db_path.exists() check, sqlite3.connect (which creates no file here:
\*    the file was found)
DbConnect ==
    /\ pc = "update_database"
    /\ UNCHANGED renaming
    /\ IF DatabaseSkipped(args.dry_run)
       THEN /\ pc' = "finish"
            /\ UNCHANGED << conn, raised, db_exists >>
       ELSE IF ~db_exists
       THEN /\ pc' = "except"
            /\ raised' = ReadFailure("db_not_found", 0, NoneVal)
            /\ UNCHANGED << conn, db_exists >>
       ELSE \E ok \in BOOLEAN :
               IF ok
               THEN /\ conn' = "open"
                    /\ db_exists' = TRUE
                    /\ pc' = "db_begin"
                    /\ UNCHANGED raised
               ELSE /\ pc' = "except"
                    /\ raised' = ReadFailure("db_failed", 0, NoneVal)
                    /\ UNCHANGED << conn, db_exists >>
    /\ UNCHANGED << args, locals, backup_paths, disk, label_sets, pending,
                    next_version, reported, exit_code, runs, start >>

\* cursor.execute("BEGIN TRANSACTION")
DbBegin ==
    /\ pc = "db_begin"
    /\ UNCHANGED renaming
    /\ pending' = << >>
    /\ pc' = "db_select"
    /\ UNCHANGED << args, locals, backup_paths, raised, disk, db_exists,
                    label_sets, conn, next_version, reported, exit_code,
                    runs, start >>

\* SELECT MAX(version) ...; next_version = (result[0] or 0) + 1
DbSelect ==
    /\ pc = "db_select"
    /\ UNCHANGED renaming
    /\ next_version' = NextVersion(label_sets \o pending, args.project)
    /\ pc' = "db_insert"
    /\ UNCHANGED << args, locals, backup_paths, raised, disk, db_exists,
                    label_sets, conn, pending, reported, exit_code,
                    runs, start >>

\* INSERT INTO label_sets (...) VALUES (...)
DbInsert ==
    /\ pc = "db_insert"
    /\ UNCHANGED renaming
    /\ pending' =
          Append(pending,
                 LabelSetsRow(args.project, next_version,
                              build_label_items_json(records, sets)))
    /\ pc' = "db_commit"
    /\ UNCHANGED << args, locals, backup_paths, raised, disk, db_exists,
                    label_sets, conn, next_version, reported, exit_code,
                    runs, start >>

\* conn.commit(); finally: conn.close()
DbCommit ==
    /\ pc = "db_commit"
    /\ UNCHANGED renaming
    /\ label_sets' = label_sets \o pending
    /\ pending' = << >>
    /\ conn' = "closed"
    /\ pc' = "finish"
    /\ UNCHANGED << args, locals, backup_paths, raised, disk, db_exists,
                    next_version, reported, exit_code, runs, start >>

\* the handler closes the connection without conn.rollback(): the pending
\* INSERT reaches the table
DbFailWithoutRollback ==
    /\ pc \in {"db_begin", "db_select", "db_insert", "db_commit"}
    /\ UNCHANGED renaming
    /\ label_sets' = label_sets \o pending
    /\ pending' = << >>
    /\ conn' = "closed"
    /\ raised' = ReadFailure("db_failed", 0, NoneVal)
    /\ pc' = "except"
    /\ UNCHANGED << args, locals, backup_paths, disk, db_exists,
                    next_version, reported, exit_code, runs, start >>

\* a statement of the transaction raises: except: conn.rollback(); raise;
\* finally: conn.close()
DbFail ==
    /\ pc \in {"db_begin", "db_select", "db_insert", "db_commit"}
    /\ UNCHANGED renaming
    /\ pending' = << >>
    /\ conn' = "closed"
    /\ raised' = ReadFailure("db_failed", 0, NoneVal)
    /\ pc' = "except"
    /\ UNCHANGED << args, locals, backup_paths, disk, db_exists,
                    label_sets, next_version, reported, exit_code, runs,
                    start >>

\* the end of the try block: sys.exit(0) of a dry run, or SUCCESS
Finish ==
    /\ pc = "finish"
    /\ UNCHANGED renaming
    /\ exit_code' = 0
    /\ pc' = "exit"
    /\ UNCHANGED << args, locals, backup_paths, raised, disk, database,
                    reported, runs, start >>

\* whether main's handler calls restore_from_backups
RestoreWanted(paths, dry_run) == paths # {} /\ ~dry_run

\* a handler that prints, restores and lets main return: status 0
HandleExceptionExitZero ==
    /\ pc = "except"
    /\ UNCHANGED renaming
    /\ IF RestoreWanted(backup_paths, args.dry_run)
       THEN /\ element_file' =
                  RestoredFile(backup_paths, backups, "element", element_file)
            /\ set_file' =
                  RestoredFile(backup_paths, backups, "set", set_file)
       ELSE UNCHANGED << element_file, set_file >>
    /\ exit_code' = 0
    /\ pc' = "exit"
    /\ UNCHANGED << args, locals, backup_paths, raised, backups, clock,
                    database, reported, runs, start >>

\* except Exception: print; restore_from_backups if wanted; sys.exit(1)
HandleException ==
    /\ pc = "except"
    /\ UNCHANGED renaming
    /\ IF RestoreWanted(backup_paths, args.dry_run)
       THEN /\ element_file' =
                  RestoredFile(backup_paths, backups, "element", element_file)
            /\ set_file' =
                  RestoredFile(backup_paths, backups, "set", set_file)
       ELSE UNCHANGED << element_file, set_file >>
    /\ exit_code' = 1
    /\ pc' = "exit"
    /\ UNCHANGED << args, locals, backup_paths, raised, backups, clock,
                    database, reported, runs, start >>

Next ==
    \/ StartRun
    \/ Reading
    \/ Validating
    \/ Extracting
    \/ Generating
    \/ CreateBackups
    \/ WriteElement
    \/ WriteSet
    \/ DbConnect
    \/ DbBegin
    \/ DbSelect
    \/ DbInsert
    \/ DbCommit
    \/ DbFail
    \/ Finish
    \/ HandleException

Spec == Init /\ [][Next]_vars

\* ------------------------------------------------------------------------
\* validate_csv, extract_sets and generate_element_mapping called on their
\* own, on every record list of the bounded input sets
\* ------------------------------------------------------------------------

LabelX == << "x" >>

LabelY == << "y" >>

LabelAB == << "a", "_", "b" >>

\* a quoted CSV field may hold a line break: '"a\nb"'
LabelMultiline == << "a", NL, "b" >>

SetZ == << "Z" >>

SetMohawk == << "M","o","h","a","w","k" >>

SetNone == << "N","O","N","E" >>

GoodColor == << "#","a","A","0","9","f","F" >>

BadColor == << "r","e","d" >>

SeqsUpTo(S, n) == UNION {[1..k -> S] : k \in 1..n}

\* the ids of the records validate_csv is called on
ValidateIds == 0..2

\* the records validate_csv is called on
ValidateRecords ==
    [id : ValidateIds,
     set_label : {SetZ},
     element_label : {LabelX, LabelY, LabelAB},
     color : {NoneVal, GoodColor, BadColor}]

\* records that passed validation differ here in set_label and color only
ExtractInputs ==
    {[i \in 1..Len(choice) |->
         ElementRecord(i - 1, choice[i][1], << "e" >> \o IntToStr(i - 1),
                       choice[i][2])] :
     choice \in SeqsUpTo({SetZ, SetMohawk, SetNone} \X {NoneVal, GoodColor},
                         MaxExtractRecords)}

\* records that passed validation, as main hands them on
GenerateInputs ==
    {rs \in SeqsUpTo([id : 0..(MaxGenerateRecords - 1),
                      set_label : {SetZ},
                      element_label :
                          {LabelX, LabelY, LabelAB, LabelMultiline},
                      color : {NoneVal}],
                     MaxGenerateRecords) :
        validate_csv(rs) = << >>}

\* records build_label_items_json is called on
MaxBuildRecords == 2

LabelUnderscores == << "_", "a", "_" >>

\* records that passed validation, with the sets main extracted from them
BuildRecords ==
    [id : 0..1,
     set_label : {SetZ, SetMohawk},
     element_label : {LabelX, LabelAB, LabelUnderscores},
     color : {NoneVal, GoodColor}]

\* lines after the header of the files read_csv is called on
MaxReadLines == 3

RowGood == Row(<< "0" >>, << "Z" >>, << "x" >>, NoneVal)

RowBadId == Row(<< "x" >>, << "Z" >>, << "y" >>, NoneVal)

RowEmptySetLabel == Row(<< "1" >>, << " " >>, << "y" >>, NoneVal)

RowEmptyElementLabel == Row(<< "1" >>, << "Z" >>, << >>, NoneVal)

\* the lines of the files read_csv is called on
ReadLines ==
    {BlankLine, RowGood, RowBadId, RowEmptySetLabel, RowEmptyElementLabel}

\* the file with the three required columns and the given lines
CsvOf(lines) ==
    [exists |-> TRUE,
     fieldnames |-> {"id", "set_label", "element_label"},
     rows |-> lines]

InitPure ==
    /\ RenamingIdle
    /\ \/ /\ pc = "call_validate"
          /\ \E n \in 1..MaxValidateRecords :
                records \in [1..n -> ValidateRecords]
          /\ args = NoArgs
       \/ pc = "call_extract" /\ records \in ExtractInputs /\ args = NoArgs
       \/ pc = "call_generate" /\ records \in GenerateInputs /\ args = NoArgs
       \/ /\ pc = "call_build"
          /\ \E n \in 1..MaxBuildRecords :
                records \in [1..n -> BuildRecords]
          /\ args = NoArgs
       \/ /\ pc = "call_read"
          /\ records = << >>
          /\ \E n \in 1..MaxReadLines :
                \E lines \in [1..n -> ReadLines] :
                   args = [NoArgs EXCEPT !.csv = CsvOf(lines)]
    /\ errors = << >>
    /\ sets = IF pc = "call_build" THEN extract_sets(records) ELSE << >>
    /\ element_content = << >>
    /\ set_content = << >>
    /\ backup_paths = {}
    /\ raised = NoException
    /\ element_file = NoFile
    /\ set_file = NoFile
    /\ backups = {}
    /\ clock = 0
    /\ db_exists = FALSE
    /\ label_sets = << >>
    /\ conn = "none"
    /\ pending = << >>
    /\ next_version = 0
    /\ reported = << >>
    /\ exit_code = -1
    /\ runs = 0
    /\ start = [element_file |-> NoFile, set_file |-> NoFile,
                backups |-> {}, label_sets |-> << >>,
                committed_by |-> NoCommit]

CallValidate ==
    /\ pc = "call_validate"
    /\ UNCHANGED renaming
    /\ errors' = validate_csv(records)
    /\ pc' = "returned_validate"
    /\ UNCHANGED << args, records, sets, element_content, set_content,
                    backup_paths, raised, disk, database, reported,
                    exit_code, runs, start >>

CallExtract ==
    /\ pc = "call_extract"
    /\ UNCHANGED renaming
    /\ sets' = extract_sets(records)
    /\ pc' = "returned_extract"
    /\ UNCHANGED << args, records, errors, element_content, set_content,
                    backup_paths, raised, disk, database, reported,
                    exit_code, runs, start >>

CallGenerate ==
    /\ pc = "call_generate"
    /\ UNCHANGED renaming
    /\ element_content' = generate_element_mapping(records)
    /\ pc' = "returned_generate"
    /\ UNCHANGED << args, records, errors, sets, set_content,
                    backup_paths, raised, disk, database, reported,
                    exit_code, runs, start >>

\* records = read_csv(csv_path), or the ValueError it raises
CallRead ==
    /\ pc = "call_read"
    /\ UNCHANGED renaming
    /\ LET read == read_csv(args.csv)
       IN  IF read.ok
           THEN records' = read.records /\ UNCHANGED raised
           ELSE raised' = read /\ UNCHANGED records
    /\ pc' = "returned_read"
    /\ UNCHANGED << args, errors, sets, element_content, set_content,
                    backup_paths, disk, database, reported, exit_code,
                    runs, start >>

\* update_database's items_json = build_label_items_json(records, sets), as
\* the parameter of its INSERT
CallBuild ==
    /\ pc = "call_build"
    /\ UNCHANGED renaming
    /\ pending' =
          << LabelSetsRow(args.project, NextVersion(label_sets, args.project),
                          build_label_items_json(records, sets)) >>
    /\ pc' = "returned_build"
    /\ UNCHANGED << args, locals, backup_paths, raised, disk, db_exists,
                    label_sets, conn, next_version, reported, exit_code,
                    runs, start >>

NextPure ==
    \/ CallBuild
    \/ CallValidate
    \/ CallExtract
    \/ CallGenerate
    \/ CallRead

PureSpec == InitPure /\ [][NextPure]_vars

\* ------------------------------------------------------------------------
\* Properties of validate_csv, extract_sets and generate_element_mapping
\* (checked under PureSpec)
\* ------------------------------------------------------------------------

Range(s) == {s[i] : i \in 1..Len(s)}

Positions(s) == 0..(Len(s) - 1)

\* the record at zero-based position i
At(s, i) == s[i + 1]

IdsAreZeroToN(rs) == \A i \in Positions(rs) : At(rs, i).id = i

LabelsPairwiseDistinct(rs) ==
    \A i, j \in Positions(rs) :
        i # j => At(rs, i).element_label # At(rs, j).element_label

\* absent, or # followed by six hex digits
ColorWellFormed(c) ==
    \/ c = NoneVal
    \/ /\ Len(c) = 7
       /\ c[1] = "#"
       /\ \A k \in 2..7 : c[k] \in HexDigits

\* C5: for every record list of length N >= 1 whose ids are exactly 0..N-1
\* in order, whose element_labels are pairwise distinct and whose colors
\* are each absent or # followed by six hex digits, validate_csv returns an
\* empty problem list.
C5_ValidInputHasNoProblems ==
    ( /\ pc = "returned_validate"
      /\ Len(records) >= 1
      /\ IdsAreZeroToN(records)
      /\ LabelsPairwiseDistinct(records)
      /\ \A i \in Positions(records) : ColorWellFormed(At(records, i).color) )
    => errors = << >>

\* a valid list of three records, one with a colour and one without
C5_Witness ==
    /\ pc = "returned_validate"
    /\ Len(records) = 3
    /\ IdsAreZeroToN(records)
    /\ LabelsPairwiseDistinct(records)
    /\ \A i \in Positions(records) : ColorWellFormed(At(records, i).color)
    /\ \E i, j \in Positions(records) :
          At(records, i).color = NoneVal /\ At(records, j).color = GoodColor
    /\ errors = << >>

Occurrences(values, v) == Cardinality({i \in 1..Len(values) : values[i] = v})

IdsOf(rs) == [i \in 1..Len(rs) |-> rs[i].id]

LabelsOf(rs) == [i \in 1..Len(rs) |-> rs[i].element_label]

HasRepeated(values) == \E v \in Range(values) : Occurrences(values, v) > 1

\* C6: validation never stops at the first problem: for any record list
\* that has both an id occurring more than once and an element_label
\* occurring more than once, the returned list holds a duplicate-id problem
\* with the occurrence count for each such id and a duplicate-label problem
\* with the occurrence count for each such label.
C6_ValidationIsExhaustive ==
    ( /\ pc = "returned_validate"
      /\ HasRepeated(IdsOf(records))
      /\ HasRepeated(LabelsOf(records)) )
    => /\ \A v \in Range(IdsOf(records)) :
             Occurrences(IdsOf(records), v) > 1
             => [kind |-> "duplicate_id", id |-> v,
                 count |-> Occurrences(IdsOf(records), v)] \in Range(errors)
       /\ \A v \in Range(LabelsOf(records)) :
             Occurrences(LabelsOf(records), v) > 1
             => [kind |-> "duplicate_label", name |-> v,
                 count |-> Occurrences(LabelsOf(records), v)]
                    \in Range(errors)

\* an id three times, a label twice and a malformed colour, all reported
C6_Witness ==
    /\ pc = "returned_validate"
    /\ \E v \in Range(IdsOf(records)) : Occurrences(IdsOf(records), v) = 3
    /\ \E v \in Range(LabelsOf(records)) :
          Occurrences(LabelsOf(records), v) = 2
    /\ \E e \in Range(errors) : e.kind = "duplicate_id" /\ e.count = 3
    /\ \E e \in Range(errors) : e.kind = "duplicate_label" /\ e.count = 2
    /\ \E e \in Range(errors) : e.kind = "invalid_color"
    /\ \E e \in Range(errors) : e.kind = "id_sequence"

IdSequenceProblemsAt(errs, i) ==
    {k \in 1..Len(errs) : errs[k].kind = "id_sequence" /\ errs[k].expected = i}

\* C7: validate_csv reports exactly one id-sequence problem for each
\* zero-based position i whose record has id # i, naming the expected value
\* i and the actual id, and no id-sequence problem for a position where
\* id = i.
C7_OneIdSequenceProblemPerMismatch ==
    pc = "returned_validate"
    => /\ \A i \in Positions(records) :
             IF At(records, i).id # i
             THEN /\ Cardinality(IdSequenceProblemsAt(errors, i)) = 1
                  /\ \A k \in IdSequenceProblemsAt(errors, i) :
                        errors[k].actual = At(records, i).id
             ELSE IdSequenceProblemsAt(errors, i) = {}
       /\ \A k \in 1..Len(errors) :
             errors[k].kind = "id_sequence"
             => errors[k].expected \in Positions(records)

\* a list with a matching position between two mismatching ones
C7_Witness ==
    /\ pc = "returned_validate"
    /\ Len(records) = 3
    /\ At(records, 0).id # 0
    /\ At(records, 1).id = 1
    /\ At(records, 2).id # 2
    /\ Cardinality({k \in 1..Len(errors) : errors[k].kind = "id_sequence"}) = 2

SetLabelsOf(rs) == [i \in 1..Len(rs) |-> rs[i].set_label]

\* the zero-based position at which label first occurs in labels
FirstOccurrence(labels, label) ==
    CHOOSE i \in Positions(labels) :
        /\ At(labels, i) = label
        /\ \A j \in 0..(i - 1) : At(labels, j) # label

\* C8: extract_sets returns one SetRecord per distinct set_label, ordered by
\* the position of the label's first occurrence in the record list, with
\* ids 0..K-1 assigned in that order whatever the alphabetical order:
\* the set_label sequence [A, B, A, C] yields [A:0, B:1, C:2].
C8_SetsInOrderOfFirstAppearance ==
    pc = "returned_extract"
    => LET labels == SetLabelsOf(records)
           names  == [k \in 1..Len(sets) |-> sets[k].name]
       IN  /\ Range(names) = Range(labels)
           /\ Len(sets) = Cardinality(Range(labels))
           /\ \A k \in Positions(sets) : At(sets, k).id = k
           /\ \A j, k \in Positions(sets) :
                 j < k => FirstOccurrence(labels, At(names, j))
                            < FirstOccurrence(labels, At(names, k))
           /\ labels = << SetZ, SetNone, SetZ, SetMohawk >>
              => [k \in 1..Len(sets) |-> << sets[k].name, sets[k].id >>]
                   = << << SetZ, 0 >>, << SetNone, 1 >>, << SetMohawk, 2 >> >>

\* [Z, NONE, Z, Mohawk]: neither order of first appearance is alphabetical
C8_Witness ==
    /\ pc = "returned_extract"
    /\ SetLabelsOf(records) = << SetZ, SetNone, SetZ, SetMohawk >>
    /\ Len(sets) = 3
    /\ sets[3].name = SetMohawk
    /\ sets[3].id = 2

C9_LinesConcatenated ==
    pc = "returned_generate"
    => LET Line(i) ==
               IntToStr(i) \o << " " >> \o At(records, i).element_label
                 \o << NL >>
           Text[n \in 0..Len(records)] ==
               IF n = 0 THEN << >> ELSE Text[n - 1] \o Line(n - 1)
       IN  element_content = Text[Len(records)]

\* ------------------------------------------------------------------------
\* Properties of a run of main() (checked under Spec)
\* ------------------------------------------------------------------------

FilesAsBeforeTheRun ==
    /\ element_file = start.element_file
    /\ set_file = start.set_file

\* the run ended in main's handler after write_mapping_files or
\* update_database raised
WriteOrDatabaseFailed ==
    /\ pc = "exit"
    /\ ~args.dry_run
    /\ raised.kind \in {"write_failed", "db_failed", "db_not_found"}

\* C1: in persisting mode, if writing the mapping files or the database
\* update fails and backups were taken (at least one of the two mapping
\* files existed at the start of the run), then when the run ends each of
\* the two mapping files is in exactly the state it had before the run.
C1_FailureLeavesFilesAsBefore ==
    (WriteOrDatabaseFailed /\ backup_paths # {}) => FilesAsBeforeTheRun

\* what the handler does restore: each mapping file that existed when the
\* run started
C1_BackedUpFilesRestored ==
    WriteOrDatabaseFailed
    => /\ start.element_file # NoFile => element_file = start.element_file
       /\ start.set_file # NoFile => set_file = start.set_file

DatabaseFailed ==
    /\ pc = "exit"
    /\ ~args.dry_run
    /\ ~args.no_db
    /\ raised.kind \in {"db_failed", "db_not_found"}

\* C2: if both mapping files exist before a persisting run with the
\* database step enabled and the database update fails, then after the run
\* both mapping files have the content they had before the run.
C2_DatabaseFailureRestoresBothFiles ==
    ( /\ DatabaseFailed
      /\ start.element_file # NoFile
      /\ start.set_file # NoFile )
    => FilesAsBeforeTheRun

\* both files were overwritten with new content, the transaction failed
\* after the connection was opened, and the old content is back
C2_Witness ==
    /\ DatabaseFailed
    /\ raised.kind = "db_failed"
    /\ conn = "closed"
    /\ start.element_file = OldElementText
    /\ start.set_file = OldSetText
    /\ element_content # OldElementText
    /\ set_content # OldSetText
    /\ FilesAsBeforeTheRun

InputIsValid(csv) ==
    /\ read_csv(csv).ok
    /\ validate_csv(read_csv(csv).records) = << >>

\* C3: a run in preview (--dry-run) mode never creates, modifies or deletes
\* a mapping file, a backup file or a label_sets row, for every input and
\* whether or not the database file exists; on valid input it ends in
\* success.
C3_DryRunChangesNothing ==
    (args.dry_run /\ pc # "idle")
    => /\ FilesAsBeforeTheRun
       /\ backups = start.backups
       /\ label_sets = start.label_sets
       /\ pending = << >>
       /\ (pc = "exit" /\ InputIsValid(args.csv)) => exit_code = 0

\* a preview of valid input, database step enabled, no database file and
\* no mapping file, ended in success
C3_Witness ==
    /\ args.dry_run
    /\ ~args.no_db
    /\ ~db_exists
    /\ pc = "exit"
    /\ exit_code = 0
    /\ element_content # << >>
    /\ element_file = NoFile
    /\ set_file = NoFile

\* C4: if validate_csv returns a non-empty problem list, the run stops
\* before the backup step: no mapping file is written, no backup file is
\* created, no label_sets row is inserted, and every problem of the list is
\* reported.
C4_ProblemsStopTheRun ==
    ( /\ pc \notin {"idle", "reading", "validating"}
      /\ validate_csv(records) # << >> )
    => /\ pc = "exit"
       /\ exit_code = 1
       /\ reported = validate_csv(records)
       /\ backup_paths = {}
       /\ FilesAsBeforeTheRun
       /\ backups = start.backups
       /\ label_sets = start.label_sets
       /\ pending = << >>

\* a persisting run on the CSV with id 0 and label x twice ended with its
\* three problems reported, beside mapping files it did not touch
C4_Witness ==
    /\ pc = "exit"
    /\ ~args.dry_run
    /\ args.csv = CsvInvalid
    /\ Len(reported) = 3
    /\ exit_code = 1
    /\ element_file = OldElementText
    /\ backups = {}

\* the versions of project's rows, oldest first
VersionHistory(rows, project) ==
    LET OfProject(row) == row.project = project
        mine == SelectSeq(rows, OfProject)
    IN  [k \in 1..Len(mine) |-> mine[k].version]

HighestVersion(rows, project) ==
    LET vs == Range(VersionHistory(rows, project))
    IN  IF vs = {} THEN 0 ELSE CHOOSE m \in vs : \A v \in vs : v <= m

\* the versions of each project are 1, 2, 3, .. in the order of insertion
VersionsCountFromOne ==
    \A project \in Projects :
        LET vs == VersionHistory(label_sets, project)
        IN  \A k \in 1..Len(vs) : vs[k] = k

\* a persisting run with the database step that succeeded added one row
SuccessAddsOneRow ==
    (pc = "exit" /\ exit_code = 0 /\ ~args.dry_run /\ ~args.no_db)
    => /\ Len(label_sets) = Len(start.label_sets) + 1
       /\ label_sets[Len(label_sets)].project = args.project

\* a step leaves the rows alone or appends one row of the run's project
\* whose version is that project's highest version (0 if none) plus 1
RowsOnlyAppended ==
    \/ label_sets' = label_sets
    \/ \E row \in Range(label_sets') :
          /\ label_sets' = Append(label_sets, row)
          /\ row.project = args.project
          /\ row.version = HighestVersion(label_sets, row.project) + 1

\* C10: after any sequence of persisting runs against a label_sets table
\* that starts empty, the versions stored for each project are increasing
\* integers starting at 1: each successful update inserts exactly one row
\* whose version is (current maximum version for that project, or 0 if
\* none) + 1, never modifies or deletes an existing row, and does not affect
\* rows of other projects.
C10_VersionsAppendOnly ==
    /\ [](VersionsCountFromOne /\ SuccessAddsOneRow)
    /\ [][RowsOnlyAppended]_vars

\* two runs, each committed a row of the same project: versions 1 and 2
C10_Witness ==
    /\ pc = "exit"
    /\ Len(label_sets) = 2
    /\ label_sets[1].project = label_sets[2].project
    /\ label_sets[1].version = 1
    /\ label_sets[2].version = 2

\* ------------------------------------------------------------------------
\* Properties of a run of main(), continued
\* ------------------------------------------------------------------------

\* the run committed a row and ended in success
CommittedRun ==
    /\ pc = "exit"
    /\ exit_code = 0
    /\ ~args.dry_run
    /\ ~args.no_db

\* the run before it that committed a row had the same CSV and project
SameInputCommittedBefore ==
    /\ start.label_sets # << >>
    /\ start.committed_by = [csv |-> args.csv, project |-> args.project]

\* C11: running the pipeline twice in persisting mode on the same valid CSV
\* and project inserts two label_sets rows that are equal in project,
\* items_json, updated_by and mapping_name and differ only in version, the
\* second version being the first plus 1.
C11_RerunDiffersInVersionOnly ==
    (CommittedRun /\ SameInputCommittedBefore)
    => LET first  == start.label_sets[Len(start.label_sets)]
           second == label_sets[Len(label_sets)]
       IN  /\ Len(label_sets) = Len(start.label_sets) + 1
           /\ second.project = first.project
           /\ second.items_json = first.items_json
           /\ second.updated_by = first.updated_by
           /\ second.mapping_name = first.mapping_name
           /\ second.version = first.version + 1

\* the two-record CSV committed twice for project "other"
C11_Witness ==
    /\ CommittedRun
    /\ SameInputCommittedBefore
    /\ args.csv = CsvValidA
    /\ args.project = "other"
    /\ Len(label_sets) = 2
    /\ Len(label_sets[2].items_json) = 2
    /\ label_sets[2].version = 2

\* the steps of update_database between BEGIN TRANSACTION and conn.commit()
TransactionSteps == {"db_begin", "db_select", "db_insert", "db_commit"}

\* a step of the open transaction raised
TransactionFailed ==
    /\ pc \in TransactionSteps
    /\ pc' = "except"

\* conn.commit() returned
TransactionCommitted ==
    /\ pc = "db_commit"
    /\ pc' = "finish"

\* the run ended after update_database raised "Database update failed"
EndedInDatabaseFailure ==
    /\ pc = "exit"
    /\ raised.kind = "db_failed"

\* C12: if any step of update_database fails after the transaction is
\* opened, the transaction is rolled back so that label_sets holds exactly
\* the rows it held before, a persistence error wrapping the cause is
\* raised, and the connection is closed; the connection is also closed
\* after a successful commit.
C12_FailedTransactionRolledBack ==
    /\ [][TransactionFailed
          => /\ label_sets' = start.label_sets
             /\ pending' = << >>
             /\ raised'.kind = "db_failed"
             /\ conn' = "closed"]_vars
    /\ [][TransactionCommitted
          => /\ label_sets' = label_sets \o pending
             /\ conn' = "closed"]_vars
    /\ [](EndedInDatabaseFailure
          => /\ label_sets = start.label_sets
             /\ conn # "open"
             /\ exit_code = 1)
    /\ [](conn = "open"
          => /\ pc \in TransactionSteps
             /\ label_sets = start.label_sets)

\* the INSERT of version 2 was pending when the transaction failed, and the
\* table still holds its one row
C12_Witness ==
    /\ EndedInDatabaseFailure
    /\ conn = "closed"
    /\ next_version = 2
    /\ Len(start.label_sets) = 1
    /\ label_sets = start.label_sets

\* a persisting run with the database step enabled
DatabaseStepEnabled ==
    /\ ~args.dry_run
    /\ ~args.no_db

\* control is inside update_database's try block or past its commit
DatabaseTouched ==
    \/ pc \in TransactionSteps
    \/ conn # "none"
    \/ pending # << >>
    \/ label_sets # start.label_sets

\* update_database raised "Database file not found" and the run ended
EndedInDatabaseNotFound ==
    /\ pc = "exit"
    /\ DatabaseStepEnabled
    /\ raised.kind = "db_not_found"

\* C13: in persisting mode with the database step enabled, if the database
\* file does not exist then update_database fails with a not-found error
\* without opening a connection; the run never creates the database file
\* or its schema.
C13_MissingDatabaseIsNotCreated ==
    /\ [](~db_exists => ~DatabaseTouched)
    /\ [][(pc = "update_database" /\ DatabaseStepEnabled /\ ~db_exists)
          => /\ pc' = "except"
             /\ raised'.kind = "db_not_found"
             /\ conn' = "none"]_vars
    /\ []((~db_exists /\ DatabaseStepEnabled)
          => /\ pc # "finish"
             /\ (pc = "exit" => exit_code = 1))
    /\ [](raised.kind = "db_not_found"
          => /\ ~db_exists
             /\ conn = "none"
             /\ pc \in {"except", "exit"})
    /\ [][db_exists' = db_exists]_vars

\* both mapping files were written, then the missing database ended the run
C13_Witness ==
    /\ EndedInDatabaseNotFound
    /\ ~db_exists
    /\ conn = "none"
    /\ exit_code = 1
    /\ label_sets = << >>
    /\ args.csv = CsvValidA

RequiredColumns == {"id", "set_label", "element_label"}

\* the CSV file of the run does not exist
CsvIsMissing == ~args.csv.exists

\* the CSV file of the run has a valid header and no data row
CsvHasNoDataRows ==
    /\ args.csv.exists
    /\ RequiredColumns \subseteq args.csv.fieldnames
    /\ DictReaderRows(args.csv.rows) = << >>

\* read_csv has returned or raised
PastReading == pc \notin {"idle", "reading"}

\* read_csv raised, main's handler is next or has run, and no later step of
\* the pipeline has left a trace
FailedInReading ==
    /\ ~raised.ok
    /\ records = << >>
    /\ errors = << >>
    /\ reported = << >>
    /\ sets = << >>
    /\ backup_paths = {}
    /\ FilesAsBeforeTheRun
    /\ backups = start.backups
    /\ label_sets = start.label_sets
    /\ pc \in {"except", "exit"}
    /\ (pc = "exit" => exit_code = 1)

\* C14: read_csv fails with a not-found error if the CSV file does not
\* exist and with an empty-input error if the file has a valid header but
\* zero data rows; in both cases no records are returned and the run ends
\* in failure before validation.
C14_MissingOrEmptyCsvFailsTheRead ==
    /\ []((PastReading /\ CsvIsMissing)
          => (raised.kind = "not_found" /\ FailedInReading))
    /\ []((PastReading /\ CsvHasNoDataRows)
          => (raised.kind = "no_data_rows" /\ FailedInReading))
    /\ [][(pc = "reading" /\ (CsvIsMissing \/ CsvHasNoDataRows))
          => pc' = "except"]_vars

\* a run on the header-only file has ended with status 1
C14_Witness ==
    /\ pc = "exit"
    /\ CsvHasNoDataRows
    /\ raised.kind = "no_data_rows"
    /\ records = << >>
    /\ exit_code = 1

\* a run on the missing file has ended with status 1
C14_WitnessNotFound ==
    /\ pc = "exit"
    /\ CsvIsMissing
    /\ raised.kind = "not_found"
    /\ exit_code = 1

\* ------------------------------------------------------------------------
\* Properties of read_csv
\* ------------------------------------------------------------------------

\* the lines after the header of the file read_csv was called on
LinesRead == args.csv.rows

\* int() does not take the line's id
IdNotParseable(line) ==
    /\ IsDataRow(line)
    /\ ~IsIntLiteral(line.id)

\* the line's set_label or element_label is empty after trimming
LabelEmptyAfterTrimming(line) ==
    /\ IsDataRow(line)
    /\ \/ Strip(line.set_label) = << >>
       \/ Strip(line.element_label) = << >>

IsOffending(line) == IdNotParseable(line) \/ LabelEmptyAfterTrimming(line)

SomeLineOffends == \E i \in 1..Len(LinesRead) : IsOffending(LinesRead[i])

\* the position in LinesRead of the first line that offends
FirstOffending ==
    CHOOSE i \in 1..Len(LinesRead) :
        /\ IsOffending(LinesRead[i])
        /\ \A j \in 1..(i - 1) : ~IsOffending(LinesRead[j])

\* the line of the file LinesRead[i] is on: the header is line 1
LineOfFile(i) == i + 1

\* the number enumerate(reader, start=2) gives LinesRead[i]
RowNumber(i) == Len(DictReaderRows(SubSeq(LinesRead, 1, i))) + 1

\* C15: read_csv fails with a format error naming the offending line and
\* raw value at the first data row whose id is not parseable as an integer,
\* and with a format error at the first data row whose set_label or
\* element_label is empty after trimming; a failing read returns no
\* records, never a partial list.
C15_OffendingLineNamed ==
    (pc = "returned_read" /\ SomeLineOffends)
    => /\ ~raised.ok
       /\ records = << >>
       /\ IF IdNotParseable(LinesRead[FirstOffending])
          THEN /\ raised.kind = "invalid_id"
               /\ raised.line = LineOfFile(FirstOffending)
               /\ raised.raw = LinesRead[FirstOffending].id
          ELSE raised.kind \in {"empty_set_label", "empty_element_label"}

\* what read_csv does: the number it names for the first offending row is
\* the row's position among the rows of the DictReader plus 1, which is the
\* row's line only when no blank line comes before it
C15_OffendingRowNumbered ==
    (pc = "returned_read" /\ SomeLineOffends)
    => /\ ~raised.ok
       /\ records = << >>
       /\ raised.line = RowNumber(FirstOffending)
       /\ IF IdNotParseable(LinesRead[FirstOffending])
          THEN /\ raised.kind = "invalid_id"
               /\ raised.raw = LinesRead[FirstOffending].id
          ELSE raised.kind \in {"empty_set_label", "empty_element_label"}

\* a good row, a blank line, then the row whose id is x: named "Line 3"
C15_BlankLineShiftsTheNumber ==
    /\ pc = "returned_read"
    /\ LinesRead = << RowGood, BlankLine, RowBadId >>
    /\ raised.kind = "invalid_id"
    /\ raised.line = 3
    /\ LineOfFile(FirstOffending) = 4

\* the steps of main() that run before create_backups returns
StepsBeforeBackupDone ==
    {"reading", "validating", "extracting", "generating", "backup"}

\* create_backups has returned in this persisting run
BackupStepDone ==
    /\ ~args.dry_run
    /\ \/ pc \in {"write_element", "write_set", "update_database", "finish"}
       \/ pc \in TransactionSteps
       \/ /\ pc \in {"except", "exit"}
          /\ raised.kind \in {"write_failed", "db_failed", "db_not_found"}
       \/ pc = "exit" /\ exit_code = 0

\* the file of the given kind as it was when the run started
FileAtStart(kind) ==
    IF kind = "element" THEN start.element_file ELSE start.set_file

\* the run holds the path of a backup of this kind, and the file at that
\* path has the content the mapping file had when the run started
BackedUp(kind) ==
    \E p \in backup_paths :
        /\ p.key = kind
        /\ \E b \in backups :
              /\ b.kind = kind
              /\ b.stamp = p.stamp
              /\ b.content = FileAtStart(kind)

NotBackedUp(kind) == \A p \in backup_paths : p.key # kind

\* C16: in a persisting run no mapping file is written before the backup
\* step has completed; each target mapping file that already exists gets a
\* timestamped sibling copy holding its pre-run content, and a target that
\* does not exist is skipped without error.
C16_BackupBeforeWrite ==
    /\ []((~args.dry_run /\ pc \in StepsBeforeBackupDone)
          => FilesAsBeforeTheRun)
    /\ [][(pc \in StepsBeforeBackupDone)
          => (element_file' = element_file /\ set_file' = set_file)]_vars
    /\ [](BackupStepDone
          => \A kind \in {"element", "set"} :
                IF FileAtStart(kind) # NoFile
                THEN BackedUp(kind)
                ELSE NotBackedUp(kind))
    /\ [][(pc = "backup")
          => (pc' = "write_element" /\ raised' = raised)]_vars

\* the element file existed and was overwritten after its backup was made;
\* the set file did not exist and was written without a backup
C16_Witness ==
    /\ BackupStepDone
    /\ pc = "exit"
    /\ exit_code = 0
    /\ start.element_file = OldElementText
    /\ start.set_file = NoFile
    /\ element_file = element_content
    /\ element_file # OldElementText
    /\ set_file = set_content
    /\ BackedUp("element")
    /\ NotBackedUp("set")

\* every backup file is still there, with the content it had
BackupsKept == \A b \in backups : b \in backups'

\* C17: backups accumulate: once created, a backup file is never deleted
\* and never content-changed by that or later runs, so after k persisting
\* runs that each found an existing mapping file there are k backups, each
\* holding the pre-run content of its run.
C17_BackupsAccumulate == [][BackupsKept]_vars

\* what create_backups does: a backup is replaced only by a backup of the
\* same file taken in the same second, whose name is the same
C17_BackupsOfOtherSecondsKept ==
    [][\A b \in backups :
          \/ b \in backups'
          \/ /\ pc = "backup"
             /\ b.stamp = clock'
             /\ \E c \in backups' : c.kind = b.kind /\ c.stamp = b.stamp]_vars

\* two persisting runs have ended, each found the element file, and there
\* is one element backup: it holds what the first run wrote
C17_SameSecondBackupReplaced ==
    /\ pc = "exit"
    /\ runs = 2
    /\ exit_code = 0
    /\ ~args.dry_run
    /\ start.element_file \notin {NoFile, OldElementText}
    /\ Cardinality({b \in backups : b.kind = "element"}) = 1
    /\ \A b \in backups : b.kind = "element" => b.content = start.element_file

\* read_csv raised
ReadError ==
    raised.kind \in {"not_found", "missing_columns", "no_data_rows",
                     "bad_row", "invalid_id", "empty_set_label",
                     "empty_element_label"}

\* validate_csv returned problems
ValidationProblems == errors # << >>

\* write_mapping_files raised
WriteFailure == raised.kind = "write_failed"

\* update_database raised
DatabaseFailure == raised.kind \in {"db_failed", "db_not_found"}

\* the preview was produced and nothing was raised
PreviewCompleted ==
    /\ args.dry_run
    /\ raised.ok
    /\ records # << >>
    /\ errors = << >>
    /\ element_content = generate_element_mapping(records)
    /\ set_content = generate_set_mapping(sets)

\* both files hold the generated text and, unless --no-db, the row is in
\* the table
PersistingCompleted ==
    /\ ~args.dry_run
    /\ raised.ok
    /\ records # << >>
    /\ errors = << >>
    /\ element_file = generate_element_mapping(records)
    /\ set_file = generate_set_mapping(sets)
    /\ IF args.no_db
       THEN label_sets = start.label_sets
       ELSE Len(label_sets) = Len(start.label_sets) + 1

\* C18: the process exit status is 0 exactly when the run succeeds (a
\* completed preview or a completed persisting run), and non-zero on a read
\* error, on validation problems, on a write failure or on a database
\* failure.
C18_ExitStatusTellsSuccess ==
    pc = "exit"
    => /\ exit_code \in {0, 1}
       /\ exit_code = 0 <=> (PreviewCompleted \/ PersistingCompleted)
       /\ exit_code # 0 <=> \/ ReadError
                            \/ ValidationProblems
                            \/ WriteFailure
                            \/ DatabaseFailure

\* a persisting run with the database step has ended with status 0
C18_Witness ==
    /\ pc = "exit"
    /\ exit_code = 0
    /\ PersistingCompleted
    /\ ~args.no_db

\* a run has ended with status 1 after write_text raised
C18_WitnessWriteFailure ==
    /\ pc = "exit"
    /\ exit_code = 1
    /\ WriteFailure

\* a persisting run with --no-db is under way or has ended
PersistingWithoutDatabase ==
    /\ pc # "idle"
    /\ ~args.dry_run
    /\ args.no_db

\* C19: a persisting run with --no-db takes backups and writes both mapping
\* files but never invokes the database updater: label_sets is unchanged,
\* and a missing database file does not fail the run.
C19_NoDbSkipsTheDatabase ==
    PersistingWithoutDatabase
    => /\ pc \notin TransactionSteps \cup {"update_database"}
       /\ label_sets = start.label_sets
       /\ conn = "none"
       /\ pending = << >>
       /\ ~DatabaseFailure
       /\ (pc = "exit" /\ exit_code = 1)
             => (ReadError \/ ValidationProblems \/ WriteFailure)
       /\ (pc \in {"finish", "exit"} /\ raised.ok /\ errors = << >>)
             => /\ element_file = element_content
                /\ set_file = set_content
                /\ \A kind \in {"element", "set"} :
                      IF FileAtStart(kind) # NoFile
                      THEN BackedUp(kind)
                      ELSE NotBackedUp(kind)
                /\ (pc = "exit" => exit_code = 0)

\* the database file is missing, both files were backed up and written,
\* and the run ended with status 0
C19_Witness ==
    /\ PersistingWithoutDatabase
    /\ pc = "exit"
    /\ exit_code = 0
    /\ ~db_exists
    /\ BackedUp("element")
    /\ BackedUp("set")
    /\ element_file = element_content
    /\ set_file = set_content
    /\ label_sets = << >>

\* the steps main() can take next from each of its steps; "except" is the
\* handler a failed step goes to, "exit" the end of the process
StepsAfter(step, dry_run, no_db) ==
    CASE step = "idle" -> {"reading"}
      [] step = "reading" -> {"validating", "except"}
      [] step = "validating" -> {"extracting", "exit"}
      [] step = "extracting" -> {"generating"}
      [] step = "generating" ->
            IF dry_run THEN {"write_element"} ELSE {"backup"}
      [] step = "backup" -> {"write_element"}
      [] step = "write_element" ->
            IF dry_run
            THEN (IF no_db THEN {"finish"} ELSE {"update_database"})
            ELSE {"write_set", "except"}
      [] step = "write_set" ->
            IF no_db THEN {"finish", "except"}
            ELSE {"update_database", "except"}
      [] step = "update_database" ->
            IF dry_run THEN {"finish"} ELSE {"db_begin", "except"}
      [] step = "db_begin" -> {"db_select", "except"}
      [] step = "db_select" -> {"db_insert", "except"}
      [] step = "db_insert" -> {"db_commit", "except"}
      [] step = "db_commit" -> {"finish", "except"}
      [] step = "finish" -> {"exit"}
      [] step = "except" -> {"exit"}
      [] step = "exit" -> {"reading"}

\* the steps a preview never takes
PersistingOnlySteps == {"backup", "write_set"} \cup TransactionSteps

\* every step before the current one has completed
EarlierStepsCompleted ==
    /\ pc \in {"validating", "extracting", "generating", "backup",
               "write_element", "write_set", "update_database", "finish"}
             \cup TransactionSteps
          => /\ raised.ok
             /\ records = read_csv(args.csv).records
    /\ pc \in {"extracting", "generating", "backup", "write_element",
               "write_set", "update_database", "finish"}
             \cup TransactionSteps
          => errors = << >>
    /\ pc \in {"generating", "backup", "write_element", "write_set",
               "update_database", "finish"} \cup TransactionSteps
          => sets = extract_sets(records)
    /\ pc \in {"backup", "write_element", "write_set", "update_database",
               "finish"} \cup TransactionSteps
          => /\ element_content = generate_element_mapping(records)
             /\ set_content = generate_set_mapping(sets)
    /\ (~args.dry_run /\ pc \in {"write_set", "update_database", "finish"}
                                   \cup TransactionSteps)
          => element_file = element_content
    /\ (~args.dry_run /\ pc \in {"update_database", "finish"}
                                   \cup TransactionSteps)
          => set_file = set_content
    /\ (~args.dry_run /\ ~args.no_db /\ pc = "finish")
          => Len(label_sets) = Len(start.label_sets) + 1
    /\ (args.dry_run => pc \notin PersistingOnlySteps)

\* main's handler does nothing but copy backups back and exit
OnlyRestoreAfterFailure ==
    pc = "except"
    => /\ pc' = "exit"
       /\ exit_code' = 1
       /\ UNCHANGED << args, locals, backup_paths, raised, backups,
                       database, reported >>
       /\ element_file' \in
             {element_file} \cup {b.content : b \in backups}
       /\ set_file' \in {set_file} \cup {b.content : b \in backups}

\* C20: every run steps through Reading, Validating, Extracting and
\* Generating and then PreviewOnly or Persisting, in that order; inside
\* Persisting the order is backup, write element file, write set file,
\* database insert; Failed is absorbing: after a step fails no later
\* pipeline step runs, only the restore.
C20_StepsInOrder ==
    /\ [][pc' \in StepsAfter(pc, args.dry_run, args.no_db)]_pc
    /\ []EarlierStepsCompleted
    /\ [][OnlyRestoreAfterFailure]_vars

\* the database insert failed after every earlier step had completed, and
\* the handler has restored the element file
C20_Witness ==
    /\ pc = "exit"
    /\ raised.kind = "db_failed"
    /\ next_version > 0
    /\ records # << >>
    /\ element_content = generate_element_mapping(records)
    /\ start.element_file = OldElementText
    /\ element_file = OldElementText
    /\ BackedUp("element")
    /\ label_sets = start.label_sets

\* ------------------------------------------------------------------------
\* Properties of build_label_items_json and of the colours of extract_sets
\* ------------------------------------------------------------------------

\* the items build_label_items_json returned
ItemsBuilt == pending[1].items_json

\* CATEGORY_COLORS['Mohawk']
MohawkColor == << "#","f","9","7","3","1","6" >>

\* CATEGORY_COLORS['NONE']
NoneColor == << "#","6","b","7","2","8","0" >>

\* CATEGORY_COLORS['Other'], the fallback of a category not in the table
FallbackColor == << "#","9","c","a","3","a","f" >>

\* the default colour of the three categories of the inputs
DefaultColorOf(category) ==
    IF category = SetMohawk THEN MohawkColor
    ELSE IF category = SetNone THEN NoneColor
    ELSE FallbackColor

\* s with its underscores as spaces: the underscores are gone, every other
\* character is where it was
UnderscoresAsSpaces(s, d) ==
    /\ Len(d) = Len(s)
    /\ \A i \in 1..Len(s) :
          /\ d[i] # "_"
          /\ s[i] # "_" => d[i] = s[i]
          /\ s[i] = "_" => d[i] = " "

\* C21: build_label_items_json produces exactly one item per record, in
\* record order, with elementId = the record's id, name = element_label,
\* category = set_label, color = the record's own color if present and
\* otherwise the category default (generic fallback for unrecognized
\* categories), description = element_label with every underscore replaced
\* by a space, and enabled = true.
C21_OneItemPerRecord ==
    pc = "returned_build"
    => /\ Len(ItemsBuilt) = Len(records)
       /\ \A i \in 1..Len(records) :
             /\ ItemsBuilt[i].elementId = records[i].id
             /\ ItemsBuilt[i].name = records[i].element_label
             /\ ItemsBuilt[i].category = records[i].set_label
             /\ ItemsBuilt[i].color =
                   IF records[i].color # NoneVal THEN records[i].color
                   ELSE DefaultColorOf(records[i].set_label)
             /\ UnderscoresAsSpaces(records[i].element_label,
                                    ItemsBuilt[i].description)
             /\ ItemsBuilt[i].enabled = TRUE

\* a coloured record of an unrecognized category with two underscores in
\* its label, then an uncoloured Mohawk record
C21_Witness ==
    /\ pc = "returned_build"
    /\ Len(records) = 2
    /\ records[1] = ElementRecord(0, SetZ, LabelUnderscores, GoodColor)
    /\ records[2] = ElementRecord(1, SetMohawk, LabelAB, NoneVal)
    /\ ItemsBuilt[1].description = << " ", "a", " " >>
    /\ ItemsBuilt[1].color = GoodColor
    /\ ItemsBuilt[2].color = MohawkColor

\* the first record, in list order, of the category
FirstRecordOf(rs, category) ==
    rs[CHOOSE i \in 1..Len(rs) :
          /\ rs[i].set_label = category
          /\ \A j \in 1..(i - 1) : rs[j].set_label # category]

\* C22: the color of each SetRecord returned by extract_sets is the color
\* of the first record (in file order) of that category if that record has
\* a color, otherwise the static CATEGORY_COLORS entry for the category
\* name, otherwise the generic fallback color; colors of later records of
\* the category never influence it.
C22_SetColorFromFirstRecord ==
    pc = "returned_extract"
    => \A k \in 1..Len(sets) :
          LET first == FirstRecordOf(records, sets[k].name)
          IN  sets[k].color =
                 IF first.color # NoneVal THEN first.color
                 ELSE IF sets[k].name = SetMohawk THEN MohawkColor
                 ELSE IF sets[k].name = SetNone THEN NoneColor
                 ELSE FallbackColor

\* Mohawk: first record uncoloured, a later one coloured; Z: first record
\* coloured, a later one uncoloured
C22_Witness ==
    /\ pc = "returned_extract"
    /\ Len(records) = 4
    /\ SetLabelsOf(records) = << SetMohawk, SetZ, SetMohawk, SetZ >>
    /\ records[1].color = NoneVal
    /\ records[3].color = GoodColor
    /\ records[2].color = GoodColor
    /\ records[4].color = NoneVal
    /\ sets[1].color = MohawkColor
    /\ sets[2].color = GoodColor

\* ------------------------------------------------------------------------
\* update_database called by several processes on one database file
\*
\* Each variable that belongs to a call holds one value per writer. conn[w]
\* is the writer's connection with the lock it holds on the file under
\* SQLite's rollback journal: "none" (not connected), "unlocked", "shared",
\* "reserved", "pending", "closed". The EXCLUSIVE lock is held only inside
\* the commit step.
\* ------------------------------------------------------------------------

\* processes calling update_database at the same time
MaxWriters == 2

Writers == 1..MaxWriters

\* the row the table holds before the writers start
OldRow == LabelSetsRow("default", 1, << >>)

\* the other writers
Others(w) == Writers \ {w}

\* a SHARED lock is refused while another connection holds PENDING
SharedLockFree(w) == \A v \in Others(w) : conn[v] # "pending"

\* a RESERVED lock is refused while another connection holds RESERVED or
\* PENDING
ReservedLockFree(w) ==
    \A v \in Others(w) : conn[v] \notin {"reserved", "pending"}

\* the EXCLUSIVE lock is refused while another connection holds any lock
ExclusiveLockFree(w) ==
    \A v \in Others(w) : conn[v] \notin {"shared", "reserved", "pending"}

InitConcurrent ==
    /\ RenamingIdle
    /\ pc = [w \in Writers |-> "update_database"]
    /\ args \in [Writers -> {[NoArgs EXCEPT !.project = p] : p \in Projects}]
    /\ records = read_csv(CsvValidB).records
    /\ errors = << >>
    /\ sets = extract_sets(records)
    /\ element_content = generate_element_mapping(records)
    /\ set_content = generate_set_mapping(sets)
    /\ backup_paths = {}
    /\ raised = [w \in Writers |-> NoException]
    /\ element_file = element_content
    /\ set_file = set_content
    /\ backups = {}
    /\ clock = 0
    /\ db_exists = TRUE
    /\ label_sets \in {<< >>, << OldRow >>}
    /\ conn = [w \in Writers |-> "none"]
    /\ pending = [w \in Writers |-> << >>]
    /\ next_version = [w \in Writers |-> 0]
    /\ reported = << >>
    /\ exit_code = -1
    /\ runs = MaxWriters
    /\ start = [element_file |-> element_file, set_file |-> set_file,
                backups |-> {}, label_sets |-> label_sets,
                committed_by |-> NoCommit]

\* conn = sqlite3.connect(str(db_path)); cursor = conn.cursor()
Connect(w) ==
    /\ pc[w] = "update_database"
    /\ UNCHANGED renaming
    /\ \E ok \in BOOLEAN :
          IF ok
          THEN /\ conn' = [conn EXCEPT ![w] = "unlocked"]
               /\ pc' = [pc EXCEPT ![w] = "db_begin"]
               /\ UNCHANGED raised
          ELSE /\ raised' =
                     [raised EXCEPT ![w] = ReadFailure("db_failed", 0, NoneVal)]
               /\ pc' = [pc EXCEPT ![w] = "raised"]
               /\ UNCHANGED conn
    /\ UNCHANGED << args, locals, backup_paths, disk, db_exists, label_sets,
                    pending, next_version, reported, exit_code, runs, start >>

\* cursor.execute("BEGIN TRANSACTION"): a deferred transaction, no lock yet
BeginTransaction(w) ==
    /\ pc[w] = "db_begin"
    /\ UNCHANGED renaming
    /\ pending' = [pending EXCEPT ![w] = << >>]
    /\ pc' = [pc EXCEPT ![w] = "db_select"]
    /\ UNCHANGED << args, locals, backup_paths, raised, disk, db_exists,
                    label_sets, conn, next_version, reported, exit_code,
                    runs, start >>

\* a SELECT outside a transaction: the SHARED lock is dropped when the
\* statement ends
SelectMaxVersionWithoutTransaction(w) ==
    /\ pc[w] = "db_select"
    /\ UNCHANGED renaming
    /\ SharedLockFree(w)
    /\ next_version' =
          [next_version EXCEPT
              ![w] = NextVersion(label_sets, args[w].project)]
    /\ pc' = [pc EXCEPT ![w] = "db_insert"]
    /\ UNCHANGED << args, locals, backup_paths, raised, disk, db_exists,
                    label_sets, conn, pending, reported, exit_code, runs,
                    start >>

\* SELECT MAX(version) ...: takes the SHARED lock, which the transaction
\* keeps, and reads the committed rows
SelectMaxVersion(w) ==
    /\ pc[w] = "db_select"
    /\ UNCHANGED renaming
    /\ SharedLockFree(w)
    /\ conn' = [conn EXCEPT ![w] = "shared"]
    /\ next_version' =
          [next_version EXCEPT
              ![w] = NextVersion(label_sets, args[w].project)]
    /\ pc' = [pc EXCEPT ![w] = "db_insert"]
    /\ UNCHANGED << args, locals, backup_paths, raised, disk, db_exists,
                    label_sets, pending, reported, exit_code, runs, start >>

\* INSERT INTO label_sets ...: takes the RESERVED lock
InsertRow(w) ==
    /\ pc[w] = "db_insert"
    /\ UNCHANGED renaming
    /\ ReservedLockFree(w)
    /\ conn' = [conn EXCEPT ![w] = "reserved"]
    /\ pending' =
          [pending EXCEPT
              ![w] = Append(@, LabelSetsRow(
                                   args[w].project, next_version[w],
                                   build_label_items_json(records, sets)))]
    /\ pc' = [pc EXCEPT ![w] = "db_commit"]
    /\ UNCHANGED << args, locals, backup_paths, raised, disk, db_exists,
                    label_sets, next_version, reported, exit_code, runs,
                    start >>

\* conn.commit() finds readers on the file: it takes the PENDING lock and
\* waits for them
CommitWaits(w) ==
    /\ pc[w] = "db_commit"
    /\ UNCHANGED renaming
    /\ conn[w] = "reserved"
    /\ ~ExclusiveLockFree(w)
    /\ conn' = [conn EXCEPT ![w] = "pending"]
    /\ UNCHANGED << pc, args, locals, backup_paths, raised, disk, db_exists,
                    label_sets, pending, next_version, reported, exit_code,
                    runs, start >>

\* conn.commit() under the EXCLUSIVE lock; finally: conn.close()
Commit(w) ==
    /\ pc[w] = "db_commit"
    /\ UNCHANGED renaming
    /\ ExclusiveLockFree(w)
    /\ label_sets' = label_sets \o pending[w]
    /\ pending' = [pending EXCEPT ![w] = << >>]
    /\ conn' = [conn EXCEPT ![w] = "closed"]
    /\ pc' = [pc EXCEPT ![w] = "returned"]
    /\ UNCHANGED << args, locals, backup_paths, raised, disk, db_exists,
                    next_version, reported, exit_code, runs, start >>

\* a statement raises, "database is locked" after the busy timeout among
\* the causes: except: conn.rollback(); raise; finally: conn.close()
StatementFails(w) ==
    /\ pc[w] \in {"db_begin", "db_select", "db_insert", "db_commit"}
    /\ UNCHANGED renaming
    /\ pending' = [pending EXCEPT ![w] = << >>]
    /\ conn' = [conn EXCEPT ![w] = "closed"]
    /\ raised' = [raised EXCEPT ![w] = ReadFailure("db_failed", 0, NoneVal)]
    /\ pc' = [pc EXCEPT ![w] = "raised"]
    /\ UNCHANGED << args, locals, backup_paths, disk, db_exists, label_sets,
                    next_version, reported, exit_code, runs, start >>

NextConcurrent ==
    \E w \in Writers :
        \/ Connect(w)
        \/ BeginTransaction(w)
        \/ SelectMaxVersion(w)
        \/ InsertRow(w)
        \/ CommitWaits(w)
        \/ Commit(w)
        \/ StatementFails(w)

ConcurrentSpec == InitConcurrent /\ [][NextConcurrent]_vars

\* the writer has read the maximum version and has not inserted yet
HasReadNotInserted(w) == pc[w] = "db_insert"

\* the writer's transaction has read or written and has not ended
InTransaction(w) == pc[w] \in {"db_insert", "db_commit"}

\* writer v inserts its row in this step
Inserts(v) == pc[v] = "db_insert" /\ pc'[v] = "db_commit"

\* writer w commits its row in this step
Commits(w) == pc[w] = "db_commit" /\ pc'[w] = "returned"

\* no two rows of the table have the same project and version
NoVersionTwice ==
    \A i, j \in 1..Len(label_sets) :
        (/\ label_sets[i].project = label_sets[j].project
         /\ label_sets[i].version = label_sets[j].version) => i = j

\* the transaction is exclusive from the read on: no other writer is in a
\* transaction that has read or written
ExclusiveFromTheRead ==
    \A w \in Writers :
        InTransaction(w) => \A v \in Others(w) : ~InTransaction(v)

\* no writer inserts for the project between another writer's read and
\* that writer's insert
NoInsertBetweenReadAndInsert ==
    \A w \in Writers :
        HasReadNotInserted(w)
        => \A v \in Others(w) :
              args[v].project = args[w].project => ~Inserts(v)

\* C23 as the specification states it: the database step performs its read
\* of the maximum version and its insert of max + 1 inside a single
\* exclusive transaction held from before the read until the commit, so
\* that no other writer's insert for the same project can occur between
\* the read and the insert and two runs never insert the same (project,
\* version).
C23_ExclusiveTransaction ==
    /\ []ExclusiveFromTheRead
    /\ [][NoInsertBetweenReadAndInsert]_vars
    /\ []NoVersionTwice

\* C23, as the code has it: the read of the maximum version and the insert
\* of max + 1 are inside one deferred transaction of one connection, which
\* holds a SHARED lock from the read and a RESERVED lock from the insert
\* until the commit or the rollback. Other writers can read, and one of
\* them can insert, between a writer's read and its insert; the row a
\* writer commits still has the version max + 1 of the rows committed at
\* that moment, because a commit waits for every other reader to end, and
\* two runs never commit the same (project, version).
C23_DeferredTransactionKeepsVersionsApart ==
    /\ [](\A w \in Writers :
             /\ pc[w] = "db_insert" => conn[w] = "shared"
             /\ pc[w] = "db_commit" => conn[w] \in {"reserved", "pending"}
             /\ pc[w] \in {"returned", "raised"}
                   => (conn[w] \in {"none", "closed"} /\ pending[w] = << >>))
    /\ [][\A w \in Writers :
             Commits(w)
             => /\ Len(pending[w]) = 1
                /\ pending[w][1].version =
                      NextVersion(label_sets, args[w].project)
                /\ label_sets' = Append(label_sets, pending[w][1])]_vars
    /\ []NoVersionTwice

\* both writers read the same maximum for the same project; one inserted
\* between the other's read and insert and committed version 2, the other
\* was refused
C23_Witness ==
    /\ args[1].project = args[2].project
    /\ next_version[1] = 2
    /\ next_version[2] = 2
    /\ pc[1] = "raised"
    /\ pc[2] = "returned"
    /\ Len(label_sets) = 2
    /\ label_sets[2].version = 2

\* ------------------------------------------------------------------------
\* The duplicate-id check and the id-sequence check of validate_csv
\* ------------------------------------------------------------------------

\* validate_csv reported a problem of this kind
Reports(kind) == \E k \in 1..Len(errors) : errors[k].kind = kind

\* C27: in validate_csv the duplicate-id check is subsumed by the
\* id-sequence check: for every record list, whenever a duplicate-id
\* problem is reported at least one id-sequence mismatch problem is also
\* reported, so a list with no id-sequence problem has pairwise distinct
\* ids equal to 0..N-1.
C27_DuplicateIdImpliesSequenceProblem ==
    pc = "returned_validate"
    => /\ Reports("duplicate_id") => Reports("id_sequence")
       /\ HasRepeated(IdsOf(records)) => Reports("id_sequence")
       /\ ~Reports("id_sequence")
             => /\ IdsAreZeroToN(records)
                /\ Range(IdsOf(records)) = Positions(records)
                /\ \A i, j \in 1..Len(records) :
                      records[i].id = records[j].id => i = j

\* ids 0, 1, 1: one duplicate-id problem and one id-sequence problem
C27_Witness ==
    /\ pc = "returned_validate"
    /\ IdsOf(records) = << 0, 1, 1 >>
    /\ Reports("duplicate_id")
    /\ Cardinality({k \in 1..Len(errors) : errors[k].kind = "id_sequence"}) = 1

\* ------------------------------------------------------------------------
\* Mapping files against the rows of label_sets
\* ------------------------------------------------------------------------

\* a persisting run with the database step has ended in failure after it
\* generated its contents
FailedAfterGenerating ==
    /\ pc = "exit"
    /\ DatabaseStepEnabled
    /\ exit_code = 1
    /\ element_content # << >>
    /\ set_content # << >>

\* C28: mapping files and database stay consistent across runs with the
\* database step enabled: after any sequence of such persisting runs, a
\* mapping file holds the content generated by a given run only if that run
\* ended in success with its label_sets row committed; a run that ends in
\* failure leaves no mapping file holding its newly generated content,
\* including when no mapping file existed before the run.
C28_FilesHoldCommittedContentOnly ==
    FailedAfterGenerating
    => /\ element_file = element_content
             => start.element_file = element_content
       /\ set_file = set_content => start.set_file = set_content
       /\ label_sets = start.label_sets

\* no mapping file existed, the database update failed, and both files
\* are left holding what the failed run generated
C28_FilesOfFailedRunLeft ==
    /\ FailedAfterGenerating
    /\ DatabaseFailure
    /\ start.element_file = NoFile
    /\ start.set_file = NoFile
    /\ element_file = element_content
    /\ set_file = set_content
    /\ label_sets = start.label_sets

\* ------------------------------------------------------------------------
\* scripts/rename_videos.py and reverse_rename.py
\* ------------------------------------------------------------------------

\* most *.mp4 entries the video directory starts with
MaxVideos == 3

\* characters outside ASCII, each one character of the text
Arrow == "<U+2192>"

CheckMark == "<U+2713>"

CrossMark == "<U+2717>"

MenRaw == << "m","e","n" >>

WomenRaw == << "w","o","m","e","n" >>

OlympicRaw == << "o","l","y","m","p","i","c" >>

WorldRaw == << "w","o","r","l","d" >>

ShortWord == << "s","h","o","r","t" >>

ProgramWord == << "p","r","o","g","r","a","m" >>

DotMp4 == << ".","m","p","4" >>

Men == << "M","e","n" >>

Women == << "W","o","m","e","n" >>

Olympic == << "O","l","y","m","p","i","c" >>

World == << "W","o","r","l","d" >>

WorldChampionship ==
    World \o << "C","h","a","m","p","i","o","n","s","h","i","p" >>

\* \d+
AllDigits(s) == s # << >> /\ \A i \in 1..Len(s) : IsDigit(s[i])

EndsWith(s, suffix) ==
    /\ Len(s) >= Len(suffix)
    /\ SubSeq(s, Len(s) - Len(suffix) + 1, Len(s)) = suffix

SkaterInfo(name, starting_number, competition, gender) ==
    [name |-> name, starting_number |-> starting_number,
     competition |-> competition, gender |-> gender]

\* the key of self.skaters
SkaterKey(s) == << s.competition, s.gender, s.starting_number >>

\* the entry one pair of columns of a row adds to self.skaters: none when
\* a cell is missing or blank or int() raises ValueError
ColumnPair(row, c, competition, gender) ==
    IF /\ Len(row) > c + 1
       /\ Strip(row[c + 1]) # << >>
       /\ Strip(row[c + 2]) # << >>
       /\ IsIntLiteral(Strip(row[c + 1]))
    THEN {SkaterInfo(Strip(row[c + 2]), ParseInt(Strip(row[c + 1])),
                     competition, gender)}
    ELSE {}

\* the entries of one data row; none for a row without a non-empty cell
RowSkaters(row) ==
    IF \A i \in 1..Len(row) : row[i] = << >> THEN {}
    ELSE ColumnPair(row, 0, Olympic, Men)
         \cup ColumnPair(row, 2, Olympic, Women)
         \cup ColumnPair(row, 4, WorldChampionship, Men)
         \cup ColumnPair(row, 6, WorldChampionship, Women)

\* self.skaters after the data rows: a later row replaces the entry of an
\* earlier one with the same key
RECURSIVE SkatersOfRows(_)
SkatersOfRows(rows) ==
    IF rows = << >> THEN {}
    ELSE LET earlier == SkatersOfRows(SubSeq(rows, 1, Len(rows) - 1))
             last == RowSkaters(rows[Len(rows)])
         IN  {s \in earlier :
                 \A t \in last : SkaterKey(t) # SkaterKey(s)}
             \cup last

\* parse_csv: the two header rows are skipped
parse_csv(rows) == SkatersOfRows(SubSeq(rows, 3, Len(rows)))

\* parse_video_filename returned None
NoVideoInfo ==
    [matched |-> FALSE, original_path |-> << >>, competition |-> << >>,
     gender |-> << >>, starting_number |-> 0, year |-> 0,
     frame_start |-> 0, frame_end |-> 0]

\* parse_video_filename: no group of the pattern can hold "_", so the
\* name matches exactly when its "_"-separated pieces match the groups
parse_video_filename(name) ==
    LET parts == Split(name, "_")
        last == IF Len(parts) = 8 THEN parts[8] ELSE << >>
        frame_end == SubSeq(last, 1, Len(last) - Len(DotMp4))
    IN  IF /\ Len(parts) = 8
           /\ parts[1] \in {MenRaw, WomenRaw}
           /\ parts[2] \in {OlympicRaw, WorldRaw}
           /\ parts[3] = ShortWord
           /\ parts[4] = ProgramWord
           /\ Len(parts[5]) = 4
           /\ AllDigits(parts[5])
           /\ AllDigits(parts[6])
           /\ AllDigits(parts[7])
           /\ EndsWith(last, DotMp4)
           /\ AllDigits(frame_end)
        THEN [matched |-> TRUE,
              original_path |-> name,
              competition |->
                  IF parts[2] = OlympicRaw THEN Olympic
                  ELSE WorldChampionship,
              gender |-> IF parts[1] = MenRaw THEN Men ELSE Women,
              starting_number |-> DigitsValue(parts[6]),
              year |-> DigitsValue(parts[5]),
              frame_start |-> DigitsValue(parts[7]),
              frame_end |-> DigitsValue(frame_end)]
        ELSE NoVideoInfo

\* name.split(maxsplit=1) of a stripped, non-empty name
SplitOnce(name) ==
    IF \A i \in 1..Len(name) : name[i] \notin Whitespace THEN << name >>
    ELSE LET k == CHOOSE i \in 1..Len(name) :
                     name[i] \in Whitespace
                     /\ \A j \in 1..(i - 1) : name[j] \notin Whitespace
             r == CHOOSE i \in (k + 1)..Len(name) :
                     name[i] \notin Whitespace
                     /\ \A j \in k..(i - 1) : name[j] \in Whitespace
         IN  << SubSeq(name, 1, k - 1), SubSeq(name, r, Len(name)) >>

\* f"{n:02d}" of a number that is not negative
TwoDigits(n) == IF n < 10 THEN << "0" >> \o NatToStr(n) ELSE NatToStr(n)

\* generate_new_filename returned None
NoFilename == NoneVal

generate_new_filename(known, video_info) ==
    LET found == {s \in known :
                     SkaterKey(s) = << video_info.competition,
                                       video_info.gender,
                                       video_info.starting_number >>}
    IN  IF found = {} THEN NoFilename
        ELSE LET skater == CHOOSE s \in found : TRUE
                 name_parts == SplitOnce(skater.name)
                 comp_short == IF video_info.competition = Olympic
                               THEN Olympic ELSE World
                 number == TwoDigits(video_info.starting_number)
             IN  comp_short \o << "_" >> \o video_info.gender
                 \o << "_", "S", "P", "#" >> \o number
                 \o << "_" >> \o name_parts[1]
                 \o (IF Len(name_parts) = 2
                     THEN << "_" >> \o name_parts[2] ELSE << >>)
                 \o DotMp4

\* os.path.exists / Path.exists of an entry of the directory
Exists(dir, name) == \E e \in dir : e.name = name

\* os.rename / Path.rename inside the directory: a missing source raises
\* FileNotFoundError; on an existing target POSIX replaces it silently and
\* Windows raises FileExistsError
Rename(dir, old, new) ==
    IF ~Exists(dir, old) THEN [ok |-> FALSE, dir |-> dir]
    ELSE IF old = new THEN [ok |-> TRUE, dir |-> dir]
    ELSE IF Exists(dir, new) /\ platform = "nt"
    THEN [ok |-> FALSE, dir |-> dir]
    ELSE LET moved == CHOOSE e \in dir : e.name = old
         IN  [ok |-> TRUE,
              dir |-> {e \in dir : e.name \notin {old, new}}
                      \cup {[name |-> new, video |-> moved.video]}]

\* the lists a directory listing may come back as: glob promises no order
Orderings(names) ==
    {f \in [1..Cardinality(names) -> names] :
        \A i, j \in 1..Cardinality(names) : f[i] = f[j] => i = j}

\* the lines rename_videos prints for the plan
RECURSIVE PlanLines(_)
PlanLines(plan) ==
    IF plan = << >> THEN << >>
    ELSE << << " ", " " >> \o plan[1][1],
            << " ", " ", Arrow, " " >> \o plan[1][2],
            << >> >>
         \o PlanLines(Tail(plan))

RenamedWord == << "R","e","n","a","m","e","d",":" >>

FailedWord == << "F","a","i","l","e","d",":" >>

\* f"  <check> Renamed: {old_path.name} <arrow> {new_path.name}"
RenamedLine(old, new) ==
    << " ", " ", CheckMark, " " >> \o RenamedWord \o << " " >> \o old
    \o << " ", Arrow, " " >> \o new

\* f"  <cross> Failed: {old_path.name} - {e}", e being the error's text
FailedLine(old) ==
    << " ", " ", CrossMark, " " >> \o FailedWord \o << " " >> \o old
    \o << " ", "-", " ", "e" >>

\* pattern.search found nothing
NoMatch == [found |-> FALSE, old_name |-> << >>, new_name |-> << >>]

\* "Renamed:" at i, white space after it, and an arrow at a with white
\* space on both sides that is not the white space after "Renamed:" alone
PatternAt(t, i, a) ==
    /\ i + Len(RenamedWord) <= Len(t)
    /\ SubSeq(t, i, i + Len(RenamedWord) - 1) = RenamedWord
    /\ t[i + Len(RenamedWord)] \in Whitespace
    /\ a >= i + Len(RenamedWord) + 2
    /\ a + 1 <= Len(t)
    /\ t[a] = Arrow
    /\ t[a - 1] \in Whitespace
    /\ t[a + 1] \in Whitespace

\* pattern.search(line.strip()) and the two stripped groups: the leftmost
\* "Renamed:" the pattern matches at, the first group as short as it can
\* be, the second up to the end of the line
SearchPattern(line) ==
    LET t == Strip(line)
        starts == {i \in 1..Len(t) : \E a \in 1..Len(t) : PatternAt(t, i, a)}
    IN  IF starts = {} THEN NoMatch
        ELSE LET i == CHOOSE x \in starts : \A y \in starts : x <= y
                 arrows == {a \in 1..Len(t) : PatternAt(t, i, a)}
                 a == CHOOSE x \in arrows : \A y \in arrows : x <= y
             IN  [found |-> TRUE,
                  old_name |->
                      Strip(SubSeq(t, i + Len(RenamedWord), a - 1)),
                  new_name |-> Strip(SubSeq(t, a + 1, Len(t)))]

\* reverse_map after the lines of the log
RECURSIVE ReverseMapOf(_)
ReverseMapOf(lines) ==
    IF lines = << >> THEN << >>
    ELSE LET m == SearchPattern(lines[1])
         IN  (IF m.found THEN << << m.new_name, m.old_name >> >>
              ELSE << >>)
             \o ReverseMapOf(Tail(lines))

\* the directories and rosters of the runs

Year2018 == << "2", "0", "1", "8" >>

VideoName(gender_raw, competition_raw, start_num, frame_start, frame_end) ==
    Join(<< "_" >>,
         << gender_raw, competition_raw, ShortWord, ProgramWord, Year2018,
            start_num, frame_start, frame_end \o DotMp4 >>)

Montoya == << "M","O","N","T","O","Y","A" >>

Felipe == << "F","e","l","i","p","e" >>

Kim == << "K","I","M" >>

\* two clips of the men's Olympic starting number 1
FileFirstClip == VideoName(MenRaw, OlympicRaw, << "0", "1" >>, << "1" >>, << "2" >>)

FileSecondClip == VideoName(MenRaw, OlympicRaw, << "1" >>, << "3" >>, << "4" >>)

FileWomenWorld ==
    VideoName(WomenRaw, WorldRaw, << "1", "2" >>, << "5" >>, << "6" >>)

\* a starting number the roster does not hold
FileNoSkater ==
    VideoName(MenRaw, WorldRaw, << "0", "7" >>, << "7" >>, << "8" >>)

\* a video the pattern does not match
FileNotes == << "n","o","t","e","s" >> \o DotMp4

\* a video that already has the name the first two would get
FileTaken ==
    Olympic \o << "_" >> \o Men \o << "_", "S", "P", "#", "0", "1", "_" >>
    \o Montoya \o << "_" >> \o Felipe \o DotMp4

VideoCandidates ==
    {[name |-> FileFirstClip, video |-> 1],
     [name |-> FileSecondClip, video |-> 2],
     [name |-> FileWomenWorld, video |-> 3],
     [name |-> FileNoSkater, video |-> 4],
     [name |-> FileNotes, video |-> 5],
     [name |-> FileTaken, video |-> 6]}

\* video_dir of a directory that does not exist
NoDirectory == {[name |-> NoFile, video |-> 0]}

HeaderRow ==
    << << "M" >>, << >>, << "W" >>, << >>, << "M" >>, << >>, << "W" >>,
       << >> >>

ColumnHeaderRow ==
    << << "N","o","." >>, << "N","a","m","e" >>,
       << "N","o","." >>, << "N","a","m","e" >>,
       << "N","o","." >>, << "N","a","m","e" >>,
       << "N","o","." >>, << "N","a","m","e" >> >>

RosterRow ==
    << << "1" >>, Montoya \o << " " >> \o Felipe, << >>, << >>, << >>,
       << >>, << " ", "1", "2" >>, Kim >>

\* a number int() does not take, and a row of empty cells
RosterRowBadNumber ==
    << << "x" >>, Kim, << >>, << >>, << >>, << >>, << >>, << >> >>

RosterRowEmpty == << << >>, << >>, << >>, << >>, << >>, << >>, << >>, << >> >>

RosterGood ==
    [exists |-> TRUE,
     rows |-> << HeaderRow, ColumnHeaderRow, RosterRow, RosterRowEmpty,
                 RosterRowBadNumber >>]

\* a file without the second header row: next(reader) raises
RosterShort == [exists |-> TRUE, rows |-> << HeaderRow >>]

RosterMissing == [exists |-> FALSE, rows |-> << >>]

Rosters == {RosterGood, RosterShort, RosterMissing}

\* the state of csv_to_mapping.py, which the renaming scripts leave alone
mapping ==
    << records, errors, sets, element_content, set_content, backup_paths,
       raised, element_file, set_file, backups, clock, db_exists,
       label_sets, conn, pending, next_version, reported, runs, start >>

\* main's dry_run
dry_run == ~args.execute

Flags == {"--dry-run", "--execute"}

InitRename ==
    /\ pc = "idle"
    /\ args = [argv |-> {}, dry_run |-> TRUE, execute |-> FALSE]
    /\ records = << >>
    /\ errors = << >>
    /\ sets = << >>
    /\ element_content = << >>
    /\ set_content = << >>
    /\ backup_paths = {}
    /\ raised = NoException
    /\ element_file = NoFile
    /\ set_file = NoFile
    /\ backups = {}
    /\ clock = 0
    /\ db_exists = FALSE
    /\ label_sets = << >>
    /\ conn = "none"
    /\ pending = << >>
    /\ next_version = 0
    /\ reported = << >>
    /\ exit_code = -1
    /\ runs = 0
    /\ start = [element_file |-> NoFile, set_file |-> NoFile,
                backups |-> {}, label_sets |-> << >>,
                committed_by |-> NoCommit]
    /\ platform \in {"posix", "nt"}
    /\ roster \in Rosters
    /\ video_dir \in
           {d \in SUBSET VideoCandidates : Cardinality(d) <= MaxVideos}
           \cup {NoDirectory}
    /\ skaters = {}
    /\ video_files = << >>
    /\ rename_plan = << >>
    /\ skipped = << >>
    /\ success_count = 0
    /\ error_count = 0
    /\ rename_log = << >>
    /\ reverse_map = << >>
    /\ position = 0
    /\ videos_before = video_dir

\* rename_videos.py is started: argparse, the two path checks, the banner
RenameMain ==
    /\ pc = "idle"
    /\ \E argv \in SUBSET Flags :
          args' = [argv |-> argv,
                   dry_run |-> TRUE,
                   execute |-> "--execute" \in argv]
    /\ IF ~roster.exists \/ video_dir = NoDirectory
       THEN pc' = "exit" /\ exit_code' = 1
       ELSE pc' = "parse_csv" /\ UNCHANGED exit_code
    /\ UNCHANGED << mapping, renaming >>

\* renamer.parse_csv(); next(reader) on a file that has ended raises
\* StopIteration, which main's handler turns into exit status 1
ParseCsv ==
    /\ pc = "parse_csv"
    /\ IF Len(roster.rows) < 2
       THEN /\ pc' = "exit"
            /\ exit_code' = 1
            /\ UNCHANGED skaters
       ELSE /\ skaters' = parse_csv(roster.rows)
            /\ pc' = "find_video_files"
            /\ UNCHANGED exit_code
    /\ UNCHANGED << args, mapping, platform, roster, video_dir, video_files,
                    rename_plan, skipped, success_count, error_count,
                    rename_log, reverse_map, position, videos_before >>

\* find_video_files, and rename_videos' return when there is no video
FindVideoFiles ==
    /\ pc = "find_video_files"
    /\ video_files' \in Orderings({e.name : e \in video_dir})
    /\ IF video_dir = {}
       THEN pc' = "complete" /\ exit_code' = 0
       ELSE pc' = "build_plan" /\ UNCHANGED exit_code
    /\ position' = 0
    /\ UNCHANGED << args, mapping, platform, roster, video_dir, skaters,
                    rename_plan, skipped, success_count, error_count,
                    rename_log, reverse_map, videos_before >>

\* one pass of the loop that builds the rename plan
PlanFile ==
    /\ pc = "build_plan"
    /\ position < Len(video_files)
    /\ LET filepath == video_files[position + 1]
           video_info == parse_video_filename(filepath)
           new_filename == generate_new_filename(skaters, video_info)
       IN  IF ~video_info.matched
           THEN /\ skipped' = Append(skipped, << filepath, "parse" >>)
                /\ UNCHANGED rename_plan
           ELSE IF new_filename = NoFilename
           THEN /\ skipped' = Append(skipped, << filepath, "no skater" >>)
                /\ UNCHANGED rename_plan
           ELSE IF Exists(video_dir, new_filename) /\ new_filename # filepath
           THEN /\ skipped' = Append(skipped, << filepath, "exists" >>)
                /\ UNCHANGED rename_plan
           ELSE /\ rename_plan' =
                       Append(rename_plan, << filepath, new_filename >>)
                /\ UNCHANGED skipped
    /\ position' = position + 1
    /\ pc' = IF position + 1 = Len(video_files) THEN "display"
             ELSE "build_plan"
    /\ UNCHANGED << args, exit_code, mapping, platform, roster, video_dir,
                    skaters, video_files, success_count, error_count,
                    rename_log, reverse_map, videos_before >>

\* the plan is printed; a dry run or an empty plan ends rename_videos
DisplayPlan ==
    /\ pc = "display"
    /\ rename_log' = rename_log \o PlanLines(rename_plan)
    /\ IF ~dry_run /\ rename_plan # << >>
       THEN pc' = "execute" /\ UNCHANGED exit_code
       ELSE pc' = "complete" /\ exit_code' = 0
    /\ position' = 0
    /\ UNCHANGED << args, mapping, platform, roster, video_dir, skaters,
                    video_files, rename_plan, skipped, success_count,
                    error_count, reverse_map, videos_before >>

\* one pass of the loop that executes the renames
ExecuteRename ==
    /\ pc = "execute"
    /\ position < Len(rename_plan)
    /\ LET old_path == rename_plan[position + 1][1]
           new_path == rename_plan[position + 1][2]
           renamed == Rename(video_dir, old_path, new_path)
       IN  /\ video_dir' = renamed.dir
           /\ IF renamed.ok
              THEN /\ rename_log' =
                          Append(rename_log, RenamedLine(old_path, new_path))
                   /\ success_count' = success_count + 1
                   /\ UNCHANGED error_count
              ELSE /\ rename_log' = Append(rename_log, FailedLine(old_path))
                   /\ error_count' = error_count + 1
                   /\ UNCHANGED success_count
    /\ position' = position + 1
    /\ IF position + 1 = Len(rename_plan)
       THEN pc' = "complete" /\ exit_code' = 0
       ELSE pc' = "execute" /\ UNCHANGED exit_code
    /\ UNCHANGED << args, mapping, platform, roster, skaters, video_files,
                    rename_plan, skipped, reverse_map, videos_before >>

\* reverse_rename.py is started on the log of the finished run: the log is
\* read and the script changes into the video directory
ReadLog ==
    /\ pc = "complete"
    /\ reverse_map' = ReverseMapOf(rename_log)
    /\ position' = 0
    /\ IF ReverseMapOf(rename_log) = << >>
       THEN pc' = "done" /\ exit_code' = 0
       ELSE pc' = "reverse" /\ exit_code' = -1
    /\ UNCHANGED << args, mapping, platform, roster, video_dir, skaters,
                    video_files, rename_plan, skipped, success_count,
                    error_count, rename_log, videos_before >>

\* one pass of reverse_rename's loop; an error of os.rename is not caught
ReverseRename ==
    /\ pc = "reverse"
    /\ position < Len(reverse_map)
    /\ LET new_name == reverse_map[position + 1][1]
           old_name == reverse_map[position + 1][2]
           renamed == Rename(video_dir, new_name, old_name)
           last == position + 1 = Len(reverse_map)
       IN  IF ~Exists(video_dir, new_name)
           THEN /\ UNCHANGED video_dir
                /\ pc' = IF last THEN "done" ELSE "reverse"
                /\ exit_code' = IF last THEN 0 ELSE exit_code
           ELSE /\ video_dir' = renamed.dir
                /\ pc' = IF ~renamed.ok THEN "exit"
                         ELSE IF last THEN "done" ELSE "reverse"
                /\ exit_code' = IF ~renamed.ok THEN 1
                                ELSE IF last THEN 0 ELSE exit_code
    /\ position' = position + 1
    /\ UNCHANGED << args, mapping, platform, roster, skaters, video_files,
                    rename_plan, skipped, success_count, error_count,
                    rename_log, reverse_map, videos_before >>

NextRename ==
    \/ RenameMain
    \/ ParseCsv
    \/ FindVideoFiles
    \/ PlanFile
    \/ DisplayPlan
    \/ ExecuteRename
    \/ ReadLog
    \/ ReverseRename

RenameSpec == InitRename /\ [][NextRename]_vars

\* ------------------------------------------------------------------------
\* What the renaming scripts do to the video directory
\* ------------------------------------------------------------------------

\* rename_videos.py has been started and reverse_rename.py has not
RenameRunSteps ==
    {"parse_csv", "find_video_files", "build_plan", "display", "execute",
     "complete"}

RenameRunCompleted == pc = "complete"

Names(dir) == {e.name : e \in dir}

\* every entry of the plan has been handed to Path.rename
PlanExecuted == success_count + error_count = Len(rename_plan)

\* C24: running rename_videos.py without the --dry-run flag executes the
\* planned renames, and running it with --dry-run only shows the plan
\* without renaming any file.
C24_DryRunFlagDecides ==
    /\ (RenameRunCompleted /\ "--dry-run" \notin args.argv
            /\ rename_plan # << >>)
       => PlanExecuted
    /\ (pc \in RenameRunSteps /\ "--dry-run" \in args.argv)
       => video_dir = videos_before

\* what the code does: --execute alone decides, whatever --dry-run says
C24_ExecuteFlagDecides ==
    /\ (RenameRunCompleted /\ "--execute" \in args.argv) => PlanExecuted
    /\ (pc \in RenameRunSteps /\ "--execute" \notin args.argv)
       => /\ video_dir = videos_before
          /\ success_count + error_count = 0

\* a run without any flag has shown a plan and renamed nothing
C24_NoFlagRenamesNothing ==
    /\ RenameRunCompleted
    /\ args.argv = {}
    /\ rename_plan # << >>
    /\ video_dir = videos_before
    /\ ~PlanExecuted

\* a run with --dry-run and --execute has renamed a file
C24_DryRunFlagOverridden ==
    /\ RenameRunCompleted
    /\ args.argv = {"--dry-run", "--execute"}
    /\ success_count > 0
    /\ video_dir # videos_before

\* the targets of the plan
PlanTargets == {rename_plan[i][2] : i \in 1..Len(rename_plan)}

TargetsPairwiseDistinct ==
    \A i, j \in 1..Len(rename_plan) :
        rename_plan[i][2] = rename_plan[j][2] => i = j

\* C25: an executing run of rename_videos never destroys a video: every
\* rename in the plan targets a path that is unoccupied at the moment the
\* rename is performed, i.e. the targets of the rename plan are pairwise
\* distinct and none exists beforehand, so the number of .mp4 files in the
\* directory is the same before and after the run.
C25_NoVideoDestroyed ==
    /\ (pc = "execute" /\ position < Len(rename_plan))
       => ~Exists(video_dir, rename_plan[position + 1][2])
    /\ pc \in {"display", "execute", "complete"}
       => /\ TargetsPairwiseDistinct
          /\ \A t \in PlanTargets : ~Exists(videos_before, t)
    /\ RenameRunCompleted
       => /\ Cardinality(video_dir) = Cardinality(videos_before)
          /\ {e.video : e \in video_dir} = {e.video : e \in videos_before}

\* the part the plan-time check does establish: no target exists before
\* the run
C25_TargetsFreeBeforehand ==
    pc \in {"display", "execute", "complete"}
    => \A t \in PlanTargets : ~Exists(videos_before, t)

\* without two plan entries for one target no video is lost
C25_DistinctTargetsKeepVideos ==
    (RenameRunCompleted /\ TargetsPairwiseDistinct)
    => /\ Cardinality(video_dir) = Cardinality(videos_before)
       /\ {e.video : e \in video_dir} = {e.video : e \in videos_before}
       /\ error_count = 0

\* two clips of one skater were renamed to one name and one video is gone
C25_VideoReplaced ==
    /\ RenameRunCompleted
    /\ platform = "posix"
    /\ success_count = 2
    /\ error_count = 0
    /\ ~TargetsPairwiseDistinct
    /\ Cardinality(video_dir) = Cardinality(videos_before) - 1

\* C26: round trip: running reverse_rename.py on the log of
\* "Renamed: old -> new" lines produced by an executing rename_videos run,
\* in the same directory, renames every successfully renamed file back to
\* its original name, skips entries whose new name no longer exists
\* without stopping, and leaves all other files untouched, so the
\* directory's file names equal those before the rename run.
C26_RoundTripRestoresNames ==
    /\ pc = "done" => Names(video_dir) = Names(videos_before)
    /\ pc \in {"reverse", "done"} => exit_code # 1

\* with pairwise distinct targets the round trip restores every entry
C26_RoundTripOfDistinctTargets ==
    (pc = "done" /\ TargetsPairwiseDistinct)
    => /\ video_dir = videos_before
       /\ Len(reverse_map) = success_count

\* reverse_map holds the names of the renames that succeeded, in order:
\* the log lines are parsed back to the names they were printed from
C26_LogParsedBack ==
    pc \in {"reverse", "done"}
    => /\ Len(reverse_map) = success_count
       /\ \A i \in 1..Len(reverse_map) :
             \E j \in 1..Len(rename_plan) :
                reverse_map[i] = << rename_plan[j][2], rename_plan[j][1] >>

\* the second entry of the log was skipped and a name is missing
C26_NameNotRestored ==
    /\ pc = "done"
    /\ exit_code = 0
    /\ Len(reverse_map) = 2
    /\ Names(videos_before) = {FileFirstClip, FileSecondClip}
    /\ Cardinality(video_dir) = 1

====
